---- MODULE Spec2Model ----
(***************************************************************************)
(* Verification model of the Warp agentic orchestrator.                    *)
(*                                                                         *)
(*   - the closed-loop tracker  (src/taskrouter_mcp.py): the in-memory     *)
(*     workflow registry and the tools initialize_workflow,                *)
(*     process_step_completion, get_workflow_status and health_check;      *)
(*   - the open-loop router     (src/router_mcp.py): route_task with its   *)
(*     guard/ack protocol, auto-loop and the three append-only log files;  *)
(*   - the stdio route tool     (src/taskrouter_mpc.py): route, which      *)
(*     forwards one call to the router over HTTP.                          *)
(*                                                                         *)
(* Every tool call is one atomic action: the handlers are synchronous and  *)
(* return one JSON document.  `lastCall` and `response` record the call    *)
(* that produced the current state and what it returned.                   *)
(***************************************************************************)
EXTENDS Integers, Sequences, FiniteSets, TLC

VARIABLES
    workflows,   \* taskrouter_mcp.workflows: workflow_id -> WorkflowState
    lastCall,    \* the tool call that led to this state (op and key arguments)
    response,    \* the JSON document that call returned
    journal,         \* router_log.jsonl: the events appended, in order
    build_summary,   \* build-summary.md: the texts appended, in order
    changelog,       \* CHANGELOG.md: the texts appended, in order
    rt,              \* the route_task call in progress: request and locals
    reply,           \* what route_task returned or raised
    calls,           \* the calls of the two integration hooks, in order
    ENFORCE_RULE_ACK, \* the configured ROUTER_ENFORCE_RULE_ACK
    guard_run,       \* one run of parse_routing_line and guard_instruction
    sink,            \* the log files as written by concurrent requests
    tool             \* one call of the stdio route tool

trackerVars == <<workflows, lastCall, response>>

routerVars ==
    <<journal, build_summary, changelog, rt, reply, calls, ENFORCE_RULE_ACK>>

\* The variables of the specifications further down, which the tracker and
\* the single route_task call leave alone.
otherVars == <<guard_run, sink, tool>>

vars == <<workflows, lastCall, response, journal, build_summary, changelog, rt, reply, calls, ENFORCE_RULE_ACK, guard_run, sink, tool>>

(***************************************************************************)
(* Bounds of the model.                                                    *)
(***************************************************************************)
MaxStepNum == 2      \* step numbers a payload may carry: 1..MaxStepNum
MaxPlanLen == 2      \* longest "steps" list of an initialize payload
MaxTotal == 2        \* largest "total_steps" of an initialize payload

WorkflowIds == {"wfA"}
StepNums == 1..MaxStepNum
Roles == {"FileCreator"}
Files == {"index.html"}

(***************************************************************************)
(* Payloads.                                                               *)
(***************************************************************************)
\* One entry of payload["steps"].  The step number is free; the remaining
\* fields are fixed by the entry's position in the list, so two entries
\* that carry the same step number are still different dicts.
MakeStep(n, i) ==
    [step |-> n, agent_role |-> "FileCreator", policy |-> "File Ops Policy",
     instruction |-> i]

\* All "steps" lists of length 0..MaxPlanLen over the step numbers.
StepNumberLists ==
    UNION {[1..len -> StepNums] : len \in 0..MaxPlanLen}

MakePlan(nums) == [i \in 1..Len(nums) |-> MakeStep(nums[i], i)]

Plans == {MakePlan(nums) : nums \in StepNumberLists}

\* The initialize payloads the model sends.  Well-typed payloads carry a
\* workflow id, a total and a plan; the malformed ones each break one of
\* the handler's checks ("" stands for an absent or empty workflow_id).
InitPayload(t, w, ht, hs, n, s) ==
    [type |-> t, workflow_id |-> w, has_total_steps |-> ht, has_steps |-> hs,
     total_steps |-> n, steps |-> s]

InitPayloadsFor(ids, totals, plans) ==
    {InitPayload("all_steps_json", w, TRUE, TRUE, n, p) :
        w \in ids, n \in totals, p \in plans}
    \cup {InitPayload("single_done_step_json", w, TRUE, TRUE, 1, MakePlan(<<1>>)) :
        w \in ids}
    \cup {InitPayload("all_steps_json", "", TRUE, TRUE, 1, MakePlan(<<1>>))}
    \cup {InitPayload("all_steps_json", w, ht, hs, 1, MakePlan(<<1>>)) :
        w \in ids, ht \in BOOLEAN, hs \in BOOLEAN}

InitPayloads == InitPayloadsFor(WorkflowIds, 0..MaxTotal, Plans)

\* What one completed step reports about files: nothing, or one file as
\* both created and modified.
FileReports ==
    {[created |-> <<>>, modified |-> <<>>]}
    \cup {[created |-> <<f>>, modified |-> <<f>>] : f \in Files}

StepPayload(t, w, hn, n, role, fr) ==
    [type |-> t, workflow_id |-> w, has_step_number |-> hn, step_number |-> n,
     completed_agent_role |-> role, completed_policy |-> "File Ops Policy",
     completed_task |-> n,
     files_created |-> fr.created, files_modified |-> fr.modified]

NoFiles == [created |-> <<>>, modified |-> <<>>]

\* A JSON null where a list of file names is expected ("files_created":
\* null).  The token is no file name, so no list of file names equals it.
NullFiles == <<"null">>

\* File reports that are not well-typed: files_created is null.
MalformedFileReports == {[created |-> NullFiles, modified |-> <<>>]}

StepPayloadsFor(ids, nums) ==
    {StepPayload("single_done_step_json", w, TRUE, n, role, fr) :
        w \in ids, n \in nums, role \in Roles, fr \in FileReports}
    \cup {StepPayload("single_done_step_json", w, TRUE, n, "FileCreator", fr) :
        w \in ids, n \in nums, fr \in MalformedFileReports}
    \cup {StepPayload("all_steps_json", w, TRUE, 1, "FileCreator", NoFiles) :
        w \in ids}
    \cup {StepPayload("single_done_step_json", w, TRUE, 1, "FileCreator", NoFiles) :
        w \in {"", "wfUnknown"}}
    \cup {StepPayload("single_done_step_json", w, FALSE, 1, "FileCreator", NoFiles) :
        w \in ids}

\* Step numbers 1..MaxStepNum, and one more that no plan declares.
StepPayloads == StepPayloadsFor(WorkflowIds, 1..(MaxStepNum + 1))

(***************************************************************************)
(* class WorkflowState                                                     *)
(***************************************************************************)
None == [none |-> TRUE]

Max(S) == CHOOSE x \in S : \A y \in S : y <= x

\* {step["step"]: step for step in steps}: a later entry with the same
\* step number replaces an earlier one.
StepLookup(steps) ==
    [n \in {steps[i].step : i \in DOMAIN steps} |->
        steps[Max({i \in DOMAIN steps : steps[i].step = n})]]

WorkflowState(workflow_id, all_steps) ==
    [workflow_id |-> workflow_id,
     all_steps |-> all_steps,
     completed_steps |-> {},
     execution_log |-> <<>>,
     file_manifest |-> [created |-> <<>>, modified |-> <<>>],
     step_lookup |-> StepLookup(all_steps.steps)]

\* list.extend(value) raises TypeError unless the value can be iterated.
IsIterable(value) == value # NullFiles

\* mark_step_completed raises part way: one of its two extend calls is
\* given a value that cannot be iterated.
MarkRaises(files_created, files_modified) ==
    ~IsIterable(files_created) \/ ~IsIterable(files_modified)

\* Mutant: the completed set is replaced by the step just reported.
mark_step_completed_ReplacesSet(ws, step_number, agent_role, policy, task, files_created, files_modified) ==
    [ws EXCEPT
        !.completed_steps = {step_number},
        !.execution_log = Append(@, [step |-> step_number,
                                     agent_role |-> agent_role,
                                     policy |-> policy,
                                     instruction |-> task,
                                     status |-> "completed"])]

\* mark_step_completed, statement by statement: the step number is added
\* (line 47), the manifest lists are extended (50, 51), the log entry is
\* appended (61).  An extend that raises leaves what ran before it in place
\* and skips the rest.
mark_step_completed(ws, step_number, agent_role, policy, task, files_created, files_modified) ==
    LET added == [ws EXCEPT !.completed_steps = @ \cup {step_number}] IN
    IF ~IsIterable(files_created) THEN added
    ELSE LET created ==
                [added EXCEPT !.file_manifest.created = @ \o files_created] IN
         IF ~IsIterable(files_modified) THEN created
         ELSE [created EXCEPT
                  !.file_manifest.modified = @ \o files_modified,
                  !.execution_log = Append(@, [step |-> step_number,
                                               agent_role |-> agent_role,
                                               policy |-> policy,
                                               instruction |-> task,
                                               status |-> "completed"])]

is_complete(ws) ==
    Cardinality(ws.completed_steps) = ws.all_steps.total_steps

\* dict.get: the value, or None when the key is absent.
LookupGet(ws, step_num) ==
    IF step_num \in DOMAIN ws.step_lookup THEN ws.step_lookup[step_num] ELSE None

\* The loop of get_next_step, from step_num up to total_steps.
RECURSIVE NextStepFrom(_, _)
NextStepFrom(ws, step_num) ==
    IF step_num > ws.all_steps.total_steps THEN None
    ELSE IF step_num \notin ws.completed_steps THEN LookupGet(ws, step_num)
    ELSE NextStepFrom(ws, step_num + 1)

get_next_step(ws) == NextStepFrom(ws, 1)

\* set(list): the distinct elements of a list.
SetOf(seq) == {seq[i] : i \in DOMAIN seq}

get_completion_response(ws) ==
    [status |-> "complete",
     workflow_id |-> ws.workflow_id,
     execution_log |-> ws.execution_log,
     summary |-> [total_steps_completed |-> Cardinality(ws.completed_steps),
                  files_created |-> Cardinality(SetOf(ws.file_manifest.created)),
                  files_modified |-> Cardinality(SetOf(ws.file_manifest.modified)),
                  agents_used |-> {ws.execution_log[i].agent_role :
                                      i \in DOMAIN ws.execution_log}]]

(***************************************************************************)
(* The tools.  Each handler is a function of the registry and the payload  *)
(* that yields the registry after the call and the returned document.  An  *)
(* error document has the single key "error", as in the source.            *)
(***************************************************************************)
Error(kind) == [error |-> kind]

IsError(doc) == "error" \in DOMAIN doc

Result(wfs, doc) == [workflows |-> wfs, response |-> doc]

\* workflows[workflow_id] = workflow_state
Register(wfs, workflow_id, ws) ==
    [w \in DOMAIN wfs \cup {workflow_id} |->
        IF w = workflow_id THEN ws ELSE wfs[w]]

\* Mutant: the duplicate-id check is missing.
InitializeValidation_NoDuplicateCheck(wfs, payload) ==
    IF payload.type # "all_steps_json" THEN "invalid_type"
    ELSE IF payload.workflow_id = "" THEN "missing_workflow_id"
    ELSE IF ~payload.has_total_steps \/ ~payload.has_steps THEN "missing_fields"
    ELSE IF Len(payload.steps) = 0 THEN "steps_empty"
    ELSE "ok"

\* The checks of initialize_workflow that precede the construction of the
\* WorkflowState, in the order of the source; "ok" when all pass.
InitializeValidation(wfs, payload) ==
    IF payload.type # "all_steps_json" THEN "invalid_type"
    ELSE IF payload.workflow_id = "" THEN "missing_workflow_id"
    ELSE IF payload.workflow_id \in DOMAIN wfs THEN "already_exists"
    ELSE IF ~payload.has_total_steps \/ ~payload.has_steps THEN "missing_fields"
    ELSE IF Len(payload.steps) = 0 THEN "steps_empty"
    ELSE "ok"

\* The registry once initialize_workflow has run past line 137.
InitializeStore(wfs, payload) ==
    Register(wfs, payload.workflow_id,
             WorkflowState(payload.workflow_id,
                           [total_steps |-> payload.total_steps,
                            steps |-> payload.steps]))

InitializeResponse(payload, first_step) ==
    IF first_step = None THEN Error("no_valid_first_step")
    ELSE [status |-> "initialized",
          workflow_id |-> payload.workflow_id,
          total_steps |-> payload.total_steps,
          first_step |-> first_step]

initialize_workflow(wfs, payload) ==
    LET check == InitializeValidation(wfs, payload) IN
    IF check # "ok" THEN Result(wfs, Error(check))
    ELSE LET stored == InitializeStore(wfs, payload) IN
         Result(stored,
                InitializeResponse(payload,
                                   get_next_step(stored[payload.workflow_id])))

\* Mutant: the already-completed check is missing.
StepValidation_NoCompletedCheck(wfs, payload) ==
    IF payload.type # "single_done_step_json" THEN "invalid_type"
    ELSE IF payload.workflow_id = "" \/ payload.workflow_id \notin DOMAIN wfs
        THEN "workflow_not_found"
    ELSE IF ~payload.has_step_number THEN "missing_step_number"
    ELSE IF payload.step_number \notin DOMAIN wfs[payload.workflow_id].step_lookup
        THEN "step_does_not_exist"
    ELSE "ok"

\* The checks of process_step_completion that precede mark_step_completed.
StepValidation(wfs, payload) ==
    IF payload.type # "single_done_step_json" THEN "invalid_type"
    ELSE IF payload.workflow_id = "" \/ payload.workflow_id \notin DOMAIN wfs
        THEN "workflow_not_found"
    ELSE IF ~payload.has_step_number THEN "missing_step_number"
    ELSE IF payload.step_number \notin DOMAIN wfs[payload.workflow_id].step_lookup
        THEN "step_does_not_exist"
    ELSE IF payload.step_number \in wfs[payload.workflow_id].completed_steps
        THEN "step_already_completed"
    ELSE "ok"

\* Lines 224-249: the document returned once the completion is recorded.
StepResponse(ws) ==
    IF is_complete(ws) THEN get_completion_response(ws)
    ELSE LET next_step == get_next_step(ws) IN
         IF next_step = None THEN Error("no_next_step_but_not_complete")
         ELSE [status |-> "continue",
               workflow_id |-> ws.workflow_id,
               next_step_number |-> next_step.step,
               total_steps |-> ws.all_steps.total_steps,
               agent_role |-> next_step.agent_role,
               policy |-> next_step.policy,
               instruction |-> next_step.instruction]

\* Mutant: file_manifest is one dict shared by every WorkflowState (a class
\* attribute), so a completion extends the manifest of all workflows.
StepStore_SharedManifest(wfs, payload) ==
    [w \in DOMAIN wfs |->
        IF w = payload.workflow_id
        THEN mark_step_completed(wfs[w], payload.step_number,
                                 payload.completed_agent_role,
                                 payload.completed_policy,
                                 payload.completed_task,
                                 payload.files_created,
                                 payload.files_modified)
        ELSE [wfs[w] EXCEPT !.file_manifest =
                [created |-> @.created \o payload.files_created,
                 modified |-> @.modified \o payload.files_modified]]]

\* Lines 214-222: the registry after the completion is recorded.
StepStore(wfs, payload) ==
    [wfs EXCEPT ![payload.workflow_id] =
        mark_step_completed(@, payload.step_number,
                            payload.completed_agent_role,
                            payload.completed_policy,
                            payload.completed_task,
                            payload.files_created,
                            payload.files_modified)]

\* Lines 251-255: whatever the handler raises is answered as an error
\* document; what was stored before the exception stays stored.
process_step_completion(wfs, payload) ==
    LET check == StepValidation(wfs, payload) IN
    IF check # "ok" THEN Result(wfs, Error(check))
    ELSE LET stored == StepStore(wfs, payload) IN
         IF MarkRaises(payload.files_created, payload.files_modified)
         THEN Result(stored, Error("step_processing_failed"))
         ELSE Result(stored, StepResponse(stored[payload.workflow_id]))

\* completed / total_steps * 100, in whole percent.
Percentage(completed, total_steps) ==
    IF total_steps > 0 THEN (completed * 100) \div total_steps ELSE 0

StatusResponse(ws) ==
    [workflow_id |-> ws.workflow_id,
     status |-> IF is_complete(ws) THEN "complete" ELSE "in_progress",
     progress |-> [completed_steps |-> Cardinality(ws.completed_steps),
                   total_steps |-> ws.all_steps.total_steps,
                   percentage |-> Percentage(Cardinality(ws.completed_steps),
                                             ws.all_steps.total_steps)],
     execution_log |-> ws.execution_log,
     file_manifest |-> ws.file_manifest]

\* The first occurrence of each element of a list, in order.
RECURSIVE Dedup(_)
Dedup(seq) ==
    IF seq = <<>> THEN <<>>
    ELSE LET front == Dedup(SubSeq(seq, 1, Len(seq) - 1))
             last == seq[Len(seq)]
         IN IF last \in SetOf(front) THEN front ELSE Append(front, last)

\* Mutant: the status call de-duplicates the stored manifest in place.
get_workflow_status_DedupInPlace(wfs, workflow_id) ==
    IF workflow_id \notin DOMAIN wfs THEN Result(wfs, Error("workflow_not_found"))
    ELSE LET stored == [wfs EXCEPT ![workflow_id].file_manifest =
                            [created |-> Dedup(@.created),
                             modified |-> Dedup(@.modified)]]
         IN Result(stored, StatusResponse(stored[workflow_id]))

get_workflow_status(wfs, workflow_id) ==
    IF workflow_id \notin DOMAIN wfs THEN Result(wfs, Error("workflow_not_found"))
    ELSE Result(wfs, StatusResponse(wfs[workflow_id]))

health_check(wfs) ==
    Result(wfs, [status |-> "healthy",
                 active_workflows |-> Cardinality(DOMAIN wfs),
                 service |-> "taskrouter-mcp"])

(***************************************************************************)
(* The tracker as a state machine: any tool, any payload, at any time.     *)
(***************************************************************************)
NoWorkflows == [w \in {} |-> None]

TrackerIdle ==
    /\ workflows = NoWorkflows
    /\ lastCall = [op |-> "none"]
    /\ response = None

\* The locals of route_task while no call is in progress.
IdleLocals ==
    [pc |-> "idle",
     request |-> [task |-> <<>>, auto_loop |-> FALSE, workflow_id |-> <<>>,
                  from_taskrouter |-> FALSE],
     workflow_id |-> <<>>, auto_loop |-> FALSE, step |-> 0,
     current_task |-> <<>>, sub_agent |-> <<>>, raw_instruction |-> <<>>,
     guarded_instruction |-> <<>>, agent_key |-> <<>>,
     agent_response |-> <<>>, retries |-> 0]

\* No route_task call is in progress and the three files are empty.
RouterIdle ==
    /\ journal = <<>>
    /\ build_summary = <<>>
    /\ changelog = <<>>
    /\ rt = IdleLocals
    /\ reply = None
    /\ calls = <<>>
    /\ ENFORCE_RULE_ACK = TRUE

\* Nothing else is going on.
OthersIdle ==
    /\ guard_run = [pc |-> "idle"]
    /\ sink = [pc |-> "idle"]
    /\ tool = [pc |-> "idle"]

TrackerInit == TrackerIdle /\ RouterIdle /\ OthersIdle

CallInitialize(payload) ==
    LET result == initialize_workflow(workflows, payload) IN
    /\ workflows' = result.workflows
    /\ response' = result.response
    /\ lastCall' = [op |-> "initialize_workflow", type |-> payload.type,
                    workflow_id |-> payload.workflow_id]
    /\ UNCHANGED <<routerVars, otherVars>>

CallStepCompletion(payload) ==
    LET result == process_step_completion(workflows, payload) IN
    /\ workflows' = result.workflows
    /\ response' = result.response
    /\ lastCall' = [op |-> "process_step_completion", type |-> payload.type,
                    workflow_id |-> payload.workflow_id,
                    has_step_number |-> payload.has_step_number,
                    step_number |-> payload.step_number]
    /\ UNCHANGED <<routerVars, otherVars>>

CallStatus(workflow_id) ==
    LET result == get_workflow_status(workflows, workflow_id) IN
    /\ workflows' = result.workflows
    /\ response' = result.response
    /\ lastCall' = [op |-> "get_workflow_status", workflow_id |-> workflow_id]
    /\ UNCHANGED <<routerVars, otherVars>>

CallHealth ==
    LET result == health_check(workflows) IN
    /\ workflows' = result.workflows
    /\ response' = result.response
    /\ lastCall' = [op |-> "health_check"]
    /\ UNCHANGED <<routerVars, otherVars>>

StatusIds == WorkflowIds \cup {"wfUnknown"}

Next ==
    \/ \E payload \in InitPayloads : CallInitialize(payload)
    \/ \E payload \in StepPayloads : CallStepCompletion(payload)
    \/ \E workflow_id \in StatusIds : CallStatus(workflow_id)
    \/ CallHealth

Spec == TrackerInit /\ [][Next]_vars

(***************************************************************************)
(* Two workflows side by side.  The plans are the well-formed plans        *)
(* 1..n and one plan without a step 1, each with its own length as total.  *)
(***************************************************************************)
PairIds == {"wfA", "wfB"}

PairPlans ==
    {MakePlan([i \in 1..len |-> i]) : len \in 1..MaxPlanLen}
    \cup {MakePlan(<<2>>)}

PairInitPayloads ==
    {InitPayload("all_steps_json", w, TRUE, TRUE, Len(p), p) :
        w \in PairIds, p \in PairPlans}

PairStepPayloads ==
    {StepPayload("single_done_step_json", w, TRUE, n, role, fr) :
        w \in PairIds, n \in 1..(MaxPlanLen + 1), role \in Roles,
        fr \in FileReports}

NextPair ==
    \/ \E payload \in PairInitPayloads : CallInitialize(payload)
    \/ \E payload \in PairStepPayloads : CallStepCompletion(payload)
    \/ \E workflow_id \in PairIds : CallStatus(workflow_id)

SpecPair == TrackerInit /\ [][NextPair]_vars

(***************************************************************************)
(* Properties of the tracker.                                              *)
(***************************************************************************)
Min(S) == CHOOSE x \in S : \A y \in S : x <= y

Declared(ws) == DOMAIN ws.step_lookup

Pending(ws) == Declared(ws) \ ws.completed_steps

\* initialize_workflow answered "initialized" for this workflow's plan.
Accepted(ws) ==
    ~IsError(InitializeResponse(
                [workflow_id |-> ws.workflow_id,
                 total_steps |-> ws.all_steps.total_steps],
                get_next_step(WorkflowState(ws.workflow_id, ws.all_steps))))

\* The declared step with the smallest pending step number, if any.
LowestPendingStep(ws) ==
    IF Pending(ws) = {} THEN None ELSE ws.step_lookup[Min(Pending(ws))]

\* The step-completion call recorded in lastCall' passes every check of the
\* handler when made in the current state.
AcceptedCompletion ==
    /\ lastCall'.op = "process_step_completion"
    /\ lastCall'.type = "single_done_step_json"
    /\ lastCall'.has_step_number
    /\ lastCall'.workflow_id \in DOMAIN workflows
    /\ lastCall'.step_number \in Declared(workflows[lastCall'.workflow_id])
    /\ lastCall'.step_number \notin workflows[lastCall'.workflow_id].completed_steps

\* C1: in every state of an accepted workflow, get_next_step returns the
\* declared step with the smallest step number that is not completed, and
\* none only when no declared step is pending.
C1_NextStepIsLowestPending ==
    \A w \in DOMAIN workflows :
        Accepted(workflows[w]) =>
            get_next_step(workflows[w]) = LowestPendingStep(workflows[w])

\* C2: once every declared step of an accepted plan has been reported
\* complete, is_complete is true and get_next_step returns none.
C2_AllDeclaredDoneIsComplete ==
    \A w \in DOMAIN workflows :
        (Accepted(workflows[w]) /\ Pending(workflows[w]) = {}) =>
            (is_complete(workflows[w]) /\ get_next_step(workflows[w]) = None)

\* C3: a step completion for an existing workflow whose step number is not
\* declared, or is already completed, returns an error and leaves the
\* registry (completed set, execution log, file manifest) as it was.
C3_RejectedCompletionChangesNothing ==
    [][(/\ lastCall'.op = "process_step_completion"
        /\ lastCall'.has_step_number
        /\ lastCall'.workflow_id \in DOMAIN workflows
        /\ \/ lastCall'.step_number \notin Declared(workflows[lastCall'.workflow_id])
           \/ lastCall'.step_number \in workflows[lastCall'.workflow_id].completed_steps)
       => (IsError(response') /\ workflows' = workflows)]_vars

C3_Witness ==
    /\ lastCall.op = "process_step_completion"
    /\ response = Error("step_already_completed")
    /\ Len(workflows[lastCall.workflow_id].execution_log) = 1
    /\ workflows[lastCall.workflow_id].file_manifest.created # <<>>

\* C4: initialize_workflow for an id that is already registered returns an
\* error and leaves the registered workflow as it was.
C4_DuplicateInitializeRejected ==
    [][(/\ lastCall'.op = "initialize_workflow"
        /\ lastCall'.workflow_id \in DOMAIN workflows)
       => (/\ IsError(response')
           /\ lastCall'.workflow_id \in DOMAIN workflows'
           /\ workflows'[lastCall'.workflow_id] = workflows[lastCall'.workflow_id])]_vars

C4_Witness ==
    /\ lastCall.op = "initialize_workflow"
    /\ response = Error("already_exists")
    /\ workflows[lastCall.workflow_id].completed_steps # {}

\* C5: an initialize_workflow call that returns an error leaves the
\* registry unchanged.
C5_FailedInitializeChangesNothing ==
    [][(lastCall'.op = "initialize_workflow" /\ IsError(response'))
       => workflows' = workflows]_vars

\* C6: an accepted step completion (workflow initialized, step declared
\* and not yet completed) returns status continue or complete, never an
\* error.
C6_AcceptedCompletionNeverErrors ==
    [][(AcceptedCompletion /\ Accepted(workflows[lastCall'.workflow_id]))
       => (~IsError(response') /\ response'.status \in {"continue", "complete"})]_vars

\* C7: get_workflow_status changes neither the registry nor any workflow.
C7_StatusHasNoSideEffects ==
    [][lastCall'.op = "get_workflow_status" => workflows' = workflows]_vars

C7_Witness ==
    /\ lastCall.op = "get_workflow_status"
    /\ ~IsError(response)
    /\ response.progress.completed_steps = 2
    /\ Len(response.file_manifest.created) = 2

\* C8: a call for one workflow id leaves every other workflow as it was.
C8_OtherWorkflowsUntouched ==
    [][lastCall'.op \in {"initialize_workflow", "process_step_completion",
                         "get_workflow_status"}
       => \A b \in DOMAIN workflows :
            b # lastCall'.workflow_id =>
                (b \in DOMAIN workflows' /\ workflows'[b] = workflows[b])]_vars

C8_Witness ==
    /\ lastCall.op = "process_step_completion"
    /\ ~IsError(response)
    /\ \E b \in DOMAIN workflows :
        /\ b # lastCall.workflow_id
        /\ workflows[b].completed_steps # {}
        /\ workflows[b].file_manifest # workflows[lastCall.workflow_id].file_manifest

NoDuplicates(seq) == Len(seq) = Cardinality(SetOf(seq))

\* C9: the manifest of an accepted workflow that get_workflow_status shows
\* once the workflow is complete, and the file counts of the completion
\* summary, are those of a set union: a file reported by two steps shows as
\* if it had been reported once.
C9_ManifestShownAsSetUnion ==
    /\ (lastCall.op = "get_workflow_status" /\ ~IsError(response)
            /\ Accepted(workflows[lastCall.workflow_id])
            /\ is_complete(workflows[lastCall.workflow_id]))
        => (/\ NoDuplicates(response.file_manifest.created)
            /\ NoDuplicates(response.file_manifest.modified))
    /\ (lastCall.op = "process_step_completion" /\ ~IsError(response)
            /\ response.status = "complete")
        => (/\ response.summary.files_created =
                Cardinality(SetOf(workflows[lastCall.workflow_id].file_manifest.created))
            /\ response.summary.files_modified =
                Cardinality(SetOf(workflows[lastCall.workflow_id].file_manifest.modified)))

(***************************************************************************)
(* The open-loop router (src/router_mcp.py).                               *)
(*                                                                         *)
(* Text is a sequence of symbols.  A symbol is one character, or one       *)
(* fixed phrase of the source that no operation of the router looks        *)
(* inside (a rule title, a sentence of the guarded instruction).  The      *)
(* tasks a caller sends are spelled character by character.  Characters    *)
(* that the module cannot spell in a string are named.                     *)
(***************************************************************************)
EmDash == "[U+2014]"
Bullet == "[U+2022]"
Arrow == "[U+2192]"
Backquote == "[U+0060]"

LowerLetters ==
    <<"a", "b", "c", "d", "e", "f", "g", "h", "i", "j", "k", "l", "m",
      "n", "o", "p", "q", "r", "s", "t", "u", "v", "w", "x", "y", "z">>

UpperLetters ==
    <<"A", "B", "C", "D", "E", "F", "G", "H", "I", "J", "K", "L", "M",
      "N", "O", "P", "Q", "R", "S", "T", "U", "V", "W", "X", "Y", "Z">>

Digits == {"0", "1", "2", "3", "4", "5", "6", "7", "8", "9"}

IsLower(c) == \E i \in DOMAIN LowerLetters : LowerLetters[i] = c
IsUpper(c) == \E i \in DOMAIN UpperLetters : UpperLetters[i] = c
IsLetter(c) == IsLower(c) \/ IsUpper(c)

\* str.upper() and str.lower(), one character.
UpperChar(c) ==
    IF IsLower(c)
    THEN UpperLetters[CHOOSE i \in DOMAIN LowerLetters : LowerLetters[i] = c]
    ELSE c

LowerChar(c) ==
    IF IsUpper(c)
    THEN LowerLetters[CHOOSE i \in DOMAIN UpperLetters : UpperLetters[i] = c]
    ELSE c

Upper(text) == [i \in DOMAIN text |-> UpperChar(text[i])]
Lower(text) == [i \in DOMAIN text |-> LowerChar(text[i])]

\* Whitespace, as str.strip() and the regex class \s see it.
IsSpace(c) == c \in {" ", "\n", "\t", "\r"}

\* text[from:], with from counted from 1.
Drop(text, from) == SubSeq(text, from, Len(text))

\* The position of the first character at or after from that is not
\* whitespace, or Len(text) + 1.
RECURSIVE SkipSpaces(_, _)
SkipSpaces(text, from) ==
    IF from > Len(text) \/ ~IsSpace(text[from]) THEN from
    ELSE SkipSpaces(text, from + 1)

\* The position of the last character at or before to that is not
\* whitespace, or 0.
RECURSIVE SkipSpacesBack(_, _)
SkipSpacesBack(text, to) ==
    IF to < 1 \/ ~IsSpace(text[to]) THEN to
    ELSE SkipSpacesBack(text, to - 1)

\* str.strip()
Strip(text) ==
    SubSeq(text, SkipSpaces(text, 1), SkipSpacesBack(text, Len(text)))

\* str.startswith(prefix)
StartsWith(text, prefix) ==
    /\ Len(text) >= Len(prefix)
    /\ SubSeq(text, 1, Len(prefix)) = prefix

\* sub in text
Contains(text, sub) ==
    \E i \in 0..(Len(text) - Len(sub)) : SubSeq(text, i + 1, i + Len(sub)) = sub

HasNewline(text) == \E i \in DOMAIN text : text[i] = "\n"

\* The position of the first newline at or after from, or Len(text) + 1.
RECURSIVE FindNewline(_, _)
FindNewline(text, from) ==
    IF from > Len(text) \/ text[from] = "\n" THEN from
    ELSE FindNewline(text, from + 1)

\* text.split("\n", 1): the part before the first newline, and the rest.
BeforeNewline(text) == SubSeq(text, 1, FindNewline(text, 1) - 1)
AfterNewline(text) == Drop(text, FindNewline(text, 1) + 1)

\* Lookup in a dict given as a set of [key, value] entries.
DictHas(dict, key) == \E e \in dict : e.key = key
DictGet(dict, key) == (CHOOSE e \in dict : e.key = key).value

\* SUB_AGENTS: routing name -> agent profile key.
SUB_AGENTS ==
  {
    \* FileCreator: file-creator
    [key |->
        <<"F", "i", "l", "e", "C", "r", "e", "a", "t", "o", "r">>,
     value |->
        <<"f", "i", "l", "e", "-", "c", "r", "e", "a", "t", "o", "r">>],
    \* GitWorkflow: git-workflow
    [key |->
        <<"G", "i", "t", "W", "o", "r", "k", "f", "l", "o", "w">>,
     value |->
        <<"g", "i", "t", "-", "w", "o", "r", "k", "f", "l", "o", "w">>],
    \* TestRunner: test-runner
    [key |->
        <<"T", "e", "s", "t", "R", "u", "n", "n", "e", "r">>,
     value |->
        <<"t", "e", "s", "t", "-", "r", "u", "n", "n", "e", "r">>],
    \* FrontendDeveloper: frontend-developer
    [key |->
        <<"F", "r", "o", "n", "t", "e", "n", "d", "D", "e", "v", "e", "l",
          "o", "p", "e", "r">>,
     value |->
        <<"f", "r", "o", "n", "t", "e", "n", "d", "-", "d", "e", "v", "e",
          "l", "o", "p", "e", "r">>],
    \* BackendDeveloper: backend-developer
    [key |->
        <<"B", "a", "c", "k", "e", "n", "d", "D", "e", "v", "e", "l", "o",
          "p", "e", "r">>,
     value |->
        <<"b", "a", "c", "k", "e", "n", "d", "-", "d", "e", "v", "e", "l",
          "o", "p", "e", "r">>],
    \* UIDesigner: ui-designer
    [key |->
        <<"U", "I", "D", "e", "s", "i", "g", "n", "e", "r">>,
     value |->
        <<"u", "i", "-", "d", "e", "s", "i", "g", "n", "e", "r">>],
    \* SprintPrioritizer: sprint-prioritizer
    [key |->
        <<"S", "p", "r", "i", "n", "t", "P", "r", "i", "o", "r", "i", "t",
          "i", "z", "e", "r">>,
     value |->
        <<"s", "p", "r", "i", "n", "t", "-", "p", "r", "i", "o", "r", "i",
          "t", "i", "z", "e", "r">>],
    \* RapidPrototyper: rapid-prototyper
    [key |->
        <<"R", "a", "p", "i", "d", "P", "r", "o", "t", "o", "t", "y", "p",
          "e", "r">>,
     value |->
        <<"r", "a", "p", "i", "d", "-", "p", "r", "o", "t", "o", "t", "y",
          "p", "e", "r">>],
    \* UXResearcher: ux-researcher
    [key |->
        <<"U", "X", "R", "e", "s", "e", "a", "r", "c", "h", "e", "r">>,
     value |->
        <<"u", "x", "-", "r", "e", "s", "e", "a", "r", "c", "h", "e", "r">>]
  }

\* RULE_TITLES: routing name -> Warp Rule title.
RULE_TITLES ==
  {
    \* FileCreator: FileCreator — File Ops Policy
    [key |->
        <<"F", "i", "l", "e", "C", "r", "e", "a", "t", "o", "r">>,
     value |->
        <<"FileCreator [U+2014] File Ops Policy">>],
    \* GitWorkflow: GitWorkflow — Safe Git Policy
    [key |->
        <<"G", "i", "t", "W", "o", "r", "k", "f", "l", "o", "w">>,
     value |->
        <<"GitWorkflow [U+2014] Safe Git Policy">>],
    \* TestRunner: TestRunner — Testing Policy
    [key |->
        <<"T", "e", "s", "t", "R", "u", "n", "n", "e", "r">>,
     value |->
        <<"TestRunner [U+2014] Testing Policy">>],
    \* FrontendDeveloper: FrontendDeveloper — UI Policy
    [key |->
        <<"F", "r", "o", "n", "t", "e", "n", "d", "D", "e", "v", "e", "l",
          "o", "p", "e", "r">>,
     value |->
        <<"FrontendDeveloper [U+2014] UI Policy">>],
    \* BackendDeveloper: BackendDeveloper — API Policy
    [key |->
        <<"B", "a", "c", "k", "e", "n", "d", "D", "e", "v", "e", "l", "o",
          "p", "e", "r">>,
     value |->
        <<"BackendDeveloper [U+2014] API Policy">>],
    \* UIDesigner: UIDesigner — Design Artifacts Policy
    [key |->
        <<"U", "I", "D", "e", "s", "i", "g", "n", "e", "r">>,
     value |->
        <<"UIDesigner [U+2014] Design Artifacts Policy">>],
    \* UXResearcher: UXResearcher — Research Artifacts Policy
    [key |->
        <<"U", "X", "R", "e", "s", "e", "a", "r", "c", "h", "e", "r">>,
     value |->
        <<"UXResearcher [U+2014] Research Artifacts Policy">>],
    \* SprintPrioritizer: SprintPrioritizer — Planning Policy
    [key |->
        <<"S", "p", "r", "i", "n", "t", "P", "r", "i", "o", "r", "i", "t",
          "i", "z", "e", "r">>,
     value |->
        <<"SprintPrioritizer [U+2014] Planning Policy">>],
    \* RapidPrototyper: RapidPrototyper — Prototype Policy
    [key |->
        <<"R", "a", "p", "i", "d", "P", "r", "o", "t", "o", "t", "y", "p",
          "e", "r">>,
     value |->
        <<"RapidPrototyper [U+2014] Prototype Policy">>]
  }


\* Repeated calls of the sub-agent after an ack mismatch.
MAX_ACK_RETRY == 1

\* The marker that ends a workflow.
DONE == <<"D", "O", "N", "E">>

\* ts(): the UTC time of the call, as text.  One placeholder character.
ts == <<"<utcnow>">>

\* str(int(time.time()))
TimeSeconds == <<"<time>">>

(***************************************************************************)
(* The three log files: each is the list of the texts appended to it.      *)
(***************************************************************************)
\* append_text: the text, and a newline when the text does not end in one.
AppendedText(text) ==
    IF text # <<>> /\ text[Len(text)] = "\n" THEN text ELSE text \o <<"\n">>

append_text(file, text) == Append(file, AppendedText(text))

\* Mutant: the journal is opened for writing, not for appending; each event
\* replaces what the file held.
log_event_jsonl_Truncates(file, obj) == <<obj>>

\* log_event_jsonl: one JSON object per line; the record stands for the line.
log_event_jsonl(file, obj) == Append(file, obj)

\* The step line: dash, time, bullet, workflow id in backquotes, bullet,
\* agent in bold, arrow, instruction, newline.
md_step_line(workflow_id, step, agent, instruction) ==
    <<"-", " ">> \o ts \o <<" ", Bullet, " ", Backquote>> \o workflow_id
    \o <<Backquote, " ", Bullet, " ", "*", "*">> \o agent
    \o <<"*", "*", " ", Arrow, " ">> \o instruction \o <<"\n">>

\* The text finalize_markdown appends to build-summary.md.
FinalSummaryBlock(workflow_id, summary) ==
    <<"\n", "#", "#", "#", " ">> \o ts \o
        <<" [U+2014] Final Summary (">> \o workflow_id
    \o <<")", "\n">> \o summary \o <<"\n">>

\* The text finalize_markdown appends to CHANGELOG.md.
ChangelogBlock(workflow_id, summary) ==
    <<"#", "#", " ">> \o ts \o
        <<" [U+2014] Workflow ">> \o workflow_id \o
        <<" Completed", "\n">> \o summary \o <<"\n">>

\* re.sub(r"[^a-z0-9]+", "-", text): every run of other characters
\* becomes one "-".
IsSlugChar(c) == IsLower(c) \/ c \in Digits

RECURSIVE SlugFrom(_, _)
SlugFrom(text, from) ==
    IF from > Len(text) THEN <<>>
    ELSE IF IsSlugChar(text[from]) THEN <<text[from]>> \o SlugFrom(text, from + 1)
    ELSE IF from > 1 /\ ~IsSlugChar(text[from - 1]) THEN SlugFrom(text, from + 1)
    ELSE <<"-">> \o SlugFrom(text, from + 1)

\* str.strip("-")
RECURSIVE StripDashes(_)
StripDashes(text) ==
    IF text = <<>> THEN text
    ELSE IF text[1] = "-" THEN StripDashes(Drop(text, 2))
    ELSE IF text[Len(text)] = "-" THEN StripDashes(SubSeq(text, 1, Len(text) - 1))
    ELSE text

\* Mutant: the id is always synthesized, also when the request gives one.
ensure_workflow_id_AlwaysSynthesizes(req) ==
    LET base == StripDashes(SlugFrom(Lower(req.task), 1)) IN
    <<"w", "f", "-">> \o SubSeq(base, 1, IF Len(base) < 24 THEN Len(base) ELSE 24)
    \o <<"-">> \o TimeSeconds

\* ensure_workflow_id: the given id (the empty text stands for None), or
\* wf-<the first 24 characters of the slug of the task>-<the time>.
ensure_workflow_id(req) ==
    IF req.workflow_id # <<>> THEN req.workflow_id
    ELSE LET base == StripDashes(SlugFrom(Lower(req.task), 1)) IN
         <<"w", "f", "-">> \o SubSeq(base, 1, IF Len(base) < 24 THEN Len(base) ELSE 24)
         \o <<"-">> \o TimeSeconds

\* RULE_TITLES.get(sub_agent, "")
RuleTitle(sub_agent) ==
    IF DictHas(RULE_TITLES, sub_agent) THEN DictGet(RULE_TITLES, sub_agent) ELSE <<>>

\* Mutant: the line the worker is told to emit separates agent and rule
\* with a semicolon.
AckLine_Semicolon(sub_agent, rule_title) ==
    <<"rules loaded (agent=">> \o sub_agent \o
    <<" ", ";", " ", "rule=">> \o rule_title \o <<")">>

\* f"rules loaded (agent={sub_agent} | rule={rule_title})"
AckLine(sub_agent, rule_title) ==
    <<"rules loaded (agent=">> \o sub_agent \o
    <<" ", "|", " ", "rule=">> \o rule_title \o <<")">>

\* "\n".join(lines)
RECURSIVE JoinLines(_)
JoinLines(lines) ==
    IF Len(lines) = 0 THEN <<>>
    ELSE IF Len(lines) = 1 THEN lines[1]
    ELSE lines[1] \o <<"\n">> \o JoinLines(Tail(lines))

\* "Task: ", which opens the last part of the guarded instruction.
TaskMarker == <<"T", "a", "s", "k", ":", " ">>

\* The lines of the guarded instruction.
GuardLines(sub_agent, raw_instruction) ==
    LET rule_title == RuleTitle(sub_agent)
        first == sub_agent \o
            <<":", " ", "Verify you are the \"">> \o sub_agent \o
            <<"\" agent.">>
        rule == <<
            <<"Then apply Warp Rule \"">> \o rule_title \o <<"\".">>,
            <<"Respond EXACTLY on a single line with:">>,
            AckLine(sub_agent, rule_title),
            <<>>,
            <<"After that acknowledgment, proceed with the task below.">>,
            <<>> >>
        task == TaskMarker \o raw_instruction
    IN <<first>> \o (IF rule_title # <<>> THEN rule ELSE <<>>) \o <<task>>

\* Mutant: only the first line of the instruction is handed on.
guard_instruction_FirstLineOnly(sub_agent, raw_instruction) ==
    JoinLines(GuardLines(sub_agent, BeforeNewline(raw_instruction)))

guard_instruction(sub_agent, raw_instruction) ==
    JoinLines(GuardLines(sub_agent, raw_instruction))

\* The characters of [A-Za-z0-9_-].
IsNameChar(c) == IsLetter(c) \/ c \in Digits \/ c \in {"_", "-"}

RECURSIVE SkipNameChars(_, _)
SkipNameChars(text, from) ==
    IF from > Len(text) \/ ~IsNameChar(text[from]) THEN from
    ELSE SkipNameChars(text, from + 1)

\* ROUTING_LINE_RE.match(task.strip()): ^\s*([A-Za-z][A-Za-z0-9_-]+)\s*:\s*(.+)$
\* with DOTALL.  The name is the longest run of name characters (two at
\* least, a letter first), then optional whitespace, a colon, optional
\* whitespace, and the instruction: everything that is left, not empty.
RoutingMatch(text) ==
    LET name_end == SkipNameChars(text, 1)
        colon == SkipSpaces(text, name_end)
        rest == SkipSpaces(text, colon + 1)
        matched == /\ Len(text) >= 1
                   /\ IsLetter(text[1])
                   /\ name_end >= 3
                   /\ colon <= Len(text)
                   /\ text[colon] = ":"
                   /\ rest <= Len(text)
    IN [matched |-> matched,
        sub_agent |-> IF matched THEN SubSeq(text, 1, name_end - 1) ELSE <<>>,
        instruction |-> IF matched THEN Drop(text, rest) ELSE <<>>]

\* parse_routing_line: [matched, sub_agent, instruction]; not matched is
\* the HTTPException 400 "invalid_format".
parse_routing_line(task) == RoutingMatch(Strip(task))

\* str.splitlines(), for the line break the model writes.
RECURSIVE SplitLines(_)
SplitLines(text) ==
    IF text = <<>> THEN <<>>
    ELSE IF FindNewline(text, 1) >= Len(text) THEN <<BeforeNewline(text)>>
    ELSE <<BeforeNewline(text)>> \o SplitLines(AfterNewline(text))

\* str.title(): a letter that follows a letter is lowered, any other
\* letter is raised.
TitleCase(text) ==
    [i \in DOMAIN text |->
        IF i > 1 /\ IsLetter(text[i - 1]) THEN LowerChar(text[i])
        ELSE UpperChar(text[i])]

\* str.replace("-", "")
RECURSIVE RemoveDashes(_)
RemoveDashes(text) ==
    IF text = <<>> THEN <<>>
    ELSE IF text[1] = "-" THEN RemoveDashes(Tail(text))
    ELSE <<text[1]>> \o RemoveDashes(Tail(text))

AckPrefix ==
    <<"rules loaded (agent=">>

NotAvailable == <<"N", "/", "A">>

SimulatedOutput(agent_key) ==
    <<"[SIMULATED OUTPUT] ">> \o agent_key \o
    <<" executed the task successfully.">>

\* call_sub_agent as the source ships it: the first line of the guarded
\* instruction that starts with the ack prefix (or an ack crafted from the
\* agent key), then one line of simulated output.
call_sub_agent(agent_key, guarded_instruction) ==
    LET lines == SplitLines(guarded_instruction)
        hits == {i \in DOMAIN lines : StartsWith(lines[i], AckPrefix)}
        crafted_title == RemoveDashes(TitleCase(agent_key))
        expected_ack ==
            IF hits # {} /\ Strip(lines[Min(hits)]) # <<>>
            THEN Strip(lines[Min(hits)])
            ELSE AckLine(agent_key,
                         IF DictHas(RULE_TITLES, crafted_title)
                         THEN DictGet(RULE_TITLES, crafted_title)
                         ELSE NotAvailable)
    IN JoinLines(<<expected_ack, SimulatedOutput(agent_key)>>)

\* What a worker wired in place of the simulation may answer: the
\* simulated answer, an ack that names the profile key instead of the
\* routing name, and the empty answer.
WorkerResponses(agent_key, guarded_instruction) ==
    {call_sub_agent(agent_key, guarded_instruction),
     JoinLines(<<AckLine(agent_key, NotAvailable), SimulatedOutput(agent_key)>>),
     <<>>}

\* sub in text, for the four names call_taskrouter_next_step looks for.
MentionsGit(prev_agent) ==
    \/ Contains(prev_agent,
        <<"g", "i", "t", "-", "w", "o", "r", "k", "f", "l", "o", "w">>)
    \/ Contains(prev_agent,
        <<"G", "i", "t", "W", "o", "r", "k", "f", "l", "o", "w">>)

MentionsFrontend(prev_agent) ==
    \/ Contains(prev_agent,
        <<"f", "r", "o", "n", "t", "e", "n", "d">>)
    \/ Contains(prev_agent,
        <<"F", "r", "o", "n", "t", "e", "n", "d">>)

\* call_taskrouter_next_step as the source ships it.
call_taskrouter_next_step(prev_agent, agent_response) ==
    IF MentionsGit(prev_agent) THEN
        <<"D", "O", "N", "E", "\n", "Committed initial version.">>
    ELSE IF MentionsFrontend(prev_agent) THEN
        <<"G", "i", "t", "W", "o", "r", "k", "f", "l", "o", "w", ":", " ",
          "Stage all changes and commit with message 'feat(site): initial scaffold and UI'">>
    ELSE
        <<"F", "r", "o", "n", "t", "e", "n", "d", "D", "e", "v", "e", "l", "o",
          "p", "e", "r", ":", " ",
          "Implement /project/src/pages/index.html per /docs/site-spec.md">>

\* "TestRunner: run tests": a TaskRouter that always has one more step.
Task_RunTests ==
    <<"T", "e", "s", "t", "R", "u", "n", "n", "e", "r", ":", " ", "r", "u",
      "n", " ", "t", "e", "s", "t", "s">>

\* "Deployer: ship it": a routing line for an agent outside the roster.
Task_UnknownAgent ==
    <<"D", "e", "p", "l", "o", "y", "e", "r", ":", " ", "s", "h", "i", "p",
      " ", "i", "t">>

\* "done": the marker in lower case, without a summary.
Task_DoneLower ==
    <<"d", "o", "n", "e">>

\* What a TaskRouter wired in place of the simulation may answer.
OracleResponses(prev_agent, agent_response) ==
    {call_taskrouter_next_step(prev_agent, agent_response),
     Task_RunTests, Task_UnknownAgent, Task_DoneLower}

\* The position of the first "|" at or after from, or Len(text) + 1.
RECURSIVE FindBar(_, _)
FindBar(text, from) ==
    IF from > Len(text) \/ text[from] = "|" THEN from
    ELSE FindBar(text, from + 1)

RulePrefix == <<"rule=">>

\* re.match(ACK_PATTERN, first_line):
\*   ^rules loaded \(agent=(?P<agent>[^|]+)\s*\|\s*rule=(?P<rule>.+)\)$
\* agent is the text up to the first "|" (not empty); after the bar and
\* optional whitespace comes rule=, and rule is what follows up to the
\* closing parenthesis that ends the line (not empty).
AckMatch(first_line) ==
    LET agent_from == Len(AckPrefix) + 1
        bar == FindBar(first_line, agent_from)
        rule_at == SkipSpaces(first_line, bar + 1)
        rule_from == rule_at + Len(RulePrefix)
        matched == /\ StartsWith(first_line, AckPrefix)
                   /\ bar <= Len(first_line)
                   /\ bar > agent_from
                   /\ StartsWith(Drop(first_line, rule_at), RulePrefix)
                   /\ first_line[Len(first_line)] = ")"
                   /\ Len(first_line) - 1 >= rule_from
    IN [matched |-> matched,
        agent |-> IF matched THEN SubSeq(first_line, agent_from, bar - 1) ELSE <<>>,
        rule |-> IF matched THEN SubSeq(first_line, rule_from, Len(first_line) - 1)
                 ELSE <<>>]

\* ok_ack of route_task, lines 294-297 and 313-316.
AckOk(first_line, sub_agent) ==
    LET m == AckMatch(first_line) IN
    /\ m.matched
    /\ Strip(m.agent) = sub_agent
    /\ Strip(m.rule) = DictGet(RULE_TITLES, sub_agent)

\* (agent_response or "").splitlines()[0] raises IndexError when the
\* response has no line at all.
HasFirstLine(agent_response) == SplitLines(agent_response) # <<>>

FirstLine(agent_response) == Strip(SplitLines(agent_response)[1])

\* str(n) for the step counts of the model.
DecimalDigits == <<"0", "1", "2", "3", "4", "5", "6", "7", "8", "9">>

RECURSIVE IntText(_)
IntText(n) ==
    IF n < 10 THEN <<DecimalDigits[n + 1]>>
    ELSE IntText(n \div 10) \o <<DecimalDigits[(n % 10) + 1]>>

(***************************************************************************)
(* route_task.  A call in progress is a record m: the locals of the        *)
(* handler, the three files and the external calls made so far.  The       *)
(* handler runs from one blocking external call to the next.               *)
(***************************************************************************)
\* The configured cap, ROUTER_MAX_STEPS.
ROUTER_MAX_STEPS == 3

MAX_STEPS == ROUTER_MAX_STEPS

NoAgent == <<>>

Message_done == <<"done">>

Message_step_complete ==
    <<"step_complete">>

RouteResponse(workflow_id, step, agent, message, done) ==
    [ok |-> TRUE, workflow_id |-> workflow_id, step |-> step, agent |-> agent,
     message |-> message, done |-> done]

\* raise HTTPException(status_code=400, detail=...)
HTTPException(detail, sub_agent) ==
    [raised |-> "HTTPException", status_code |-> 400, detail |-> detail,
     agent |-> sub_agent]

\* An exception no handler catches: the server answers 500.
Uncaught(exception) == [raised |-> exception, status_code |-> 500]

Return(m, answer) == [m EXCEPT !.pc = "returned", !.reply = answer]

Raise(m, exception) == [m EXCEPT !.pc = "raised", !.reply = exception]

finalize_markdown(m, workflow_id, summary) ==
    [m EXCEPT
        !.build_summary = append_text(@, FinalSummaryBlock(workflow_id, summary)),
        !.changelog = append_text(@, ChangelogBlock(workflow_id, summary))]

\* Lines 253-255 and 338-341: finalize, log the done event, return.
Finalize(m, final_summary, step, agent) ==
    LET written == finalize_markdown(m, m.workflow_id, final_summary) IN
    Return([written EXCEPT !.journal =
                log_event_jsonl(@, [ts |-> ts, workflow_id |-> m.workflow_id,
                                    type |-> "done", summary |-> final_summary])],
           RouteResponse(m.workflow_id, step, agent, Message_done, TRUE))

\* f"Stopped after {MAX_STEPS} steps (safety cap)."
StoppedSummary ==
    <<"Stopped after ">> \o IntText(MAX_STEPS) \o
    <<" steps (safety cap).">>

\* Lines 262-266: the safety cap.
StopAtCap(m) ==
    LET written == finalize_markdown(m, m.workflow_id, StoppedSummary) IN
    Return([written EXCEPT !.journal =
                log_event_jsonl(@, [ts |-> ts, workflow_id |-> m.workflow_id,
                                    type |-> "stopped_max_steps",
                                    summary |-> StoppedSummary])],
           RouteResponse(m.workflow_id, m.step, NoAgent, StoppedSummary, TRUE))

\* Lines 274-290: guard, persist the step, and call the sub-agent.
\* Mutant: every step event is numbered 1, whatever the pass of the loop.
PersistAndInvoke_LogsStepOne(m, sub_agent, raw_instruction) ==
    LET guarded_instruction == guard_instruction(sub_agent, raw_instruction)
        agent_key == DictGet(SUB_AGENTS, sub_agent)
    IN [m EXCEPT
        !.pc = "call_sub_agent",
        !.sub_agent = sub_agent,
        !.raw_instruction = raw_instruction,
        !.guarded_instruction = guarded_instruction,
        !.agent_key = agent_key,
        !.build_summary =
            append_text(@, md_step_line(m.workflow_id, 1, sub_agent,
                                        guarded_instruction)),
        !.journal =
            log_event_jsonl(@, [ts |-> ts, workflow_id |-> m.workflow_id,
                                type |-> "step", step |-> 1,
                                agent |-> sub_agent,
                                instruction |-> guarded_instruction]),
        !.calls = Append(@, [call |-> "call_sub_agent", agent_key |-> agent_key,
                             instruction |-> guarded_instruction])]

PersistAndInvoke(m, sub_agent, raw_instruction) ==
    LET guarded_instruction == guard_instruction(sub_agent, raw_instruction)
        agent_key == DictGet(SUB_AGENTS, sub_agent)
    IN [m EXCEPT
        !.pc = "call_sub_agent",
        !.sub_agent = sub_agent,
        !.raw_instruction = raw_instruction,
        !.guarded_instruction = guarded_instruction,
        !.agent_key = agent_key,
        !.build_summary =
            append_text(@, md_step_line(m.workflow_id, m.step, sub_agent,
                                        guarded_instruction)),
        !.journal =
            log_event_jsonl(@, [ts |-> ts, workflow_id |-> m.workflow_id,
                                type |-> "step", step |-> m.step,
                                agent |-> sub_agent,
                                instruction |-> guarded_instruction]),
        !.calls = Append(@, [call |-> "call_sub_agent", agent_key |-> agent_key,
                             instruction |-> guarded_instruction])]

\* Mutant: a task that is no routing line is not rejected but handed, whole,
\* to the first agent of the roster.
LoopIteration_NoFormatCheck(m0) ==
    LET m == [m0 EXCEPT !.step = @ + 1]
        parsed == parse_routing_line(m.current_task)
    IN IF m.step > MAX_STEPS THEN StopAtCap(m)
       ELSE IF ~parsed.matched
           THEN PersistAndInvoke(m, (CHOOSE e \in SUB_AGENTS : TRUE).key,
                                 m.current_task)
       ELSE IF ~DictHas(SUB_AGENTS, parsed.sub_agent)
           THEN Raise(m, HTTPException("unknown_agent", parsed.sub_agent))
       ELSE PersistAndInvoke(m, parsed.sub_agent, parsed.instruction)

\* Mutant: the cap is compared one step too late.
LoopIteration_CapOffByOne(m0) ==
    LET m == [m0 EXCEPT !.step = @ + 1]
        parsed == parse_routing_line(m.current_task)
    IN IF m.step > MAX_STEPS + 1 THEN StopAtCap(m)
       ELSE IF ~parsed.matched
           THEN Raise(m, HTTPException("invalid_format", NoAgent))
       ELSE IF ~DictHas(SUB_AGENTS, parsed.sub_agent)
           THEN Raise(m, HTTPException("unknown_agent", parsed.sub_agent))
       ELSE PersistAndInvoke(m, parsed.sub_agent, parsed.instruction)

\* Lines 261-290: one pass of the loop up to the call of the sub-agent.
LoopIteration(m0) ==
    LET m == [m0 EXCEPT !.step = @ + 1]
        parsed == parse_routing_line(m.current_task)
    IN IF m.step > MAX_STEPS THEN StopAtCap(m)
       ELSE IF ~parsed.matched
           THEN Raise(m, HTTPException("invalid_format", NoAgent))
       ELSE IF ~DictHas(SUB_AGENTS, parsed.sub_agent)
           THEN Raise(m, HTTPException("unknown_agent", parsed.sub_agent))
       ELSE PersistAndInvoke(m, parsed.sub_agent, parsed.instruction)

\* request.task.strip().split("\n", 1)[1] if "\n" in request.task else "":
\* the test reads the task as given, the split the stripped task.
EarlyDoneSummary(task) ==
    IF ~HasNewline(task) THEN [raised |-> FALSE, summary |-> <<>>]
    ELSE IF HasNewline(Strip(task))
        THEN [raised |-> FALSE, summary |-> AfterNewline(Strip(task))]
    ELSE [raised |-> TRUE, summary |-> <<>>]

IsDone(text) == StartsWith(Upper(text), DONE)

\* Mutant: the kickoff rule of lines 247-248 is missing; a call from the
\* TaskRouter loops only when it asks for it.
RouteEntry_NoKickoffRule(m0, request) ==
    LET m == [m0 EXCEPT
                !.workflow_id = ensure_workflow_id(request),
                !.auto_loop = request.auto_loop,
                !.step = 0,
                !.current_task = request.task]
        early == EarlyDoneSummary(request.task)
    IN IF IsDone(Strip(request.task))
       THEN IF early.raised THEN Raise(m, Uncaught("IndexError"))
            ELSE Finalize(m, early.summary, 0, NoAgent)
       ELSE LoopIteration(m)

\* Lines 244-258: the entry of route_task.
RouteEntry(m0, request) ==
    LET m == [m0 EXCEPT
                !.workflow_id = ensure_workflow_id(request),
                !.auto_loop = request.auto_loop \/ request.from_taskrouter,
                !.step = 0,
                !.current_task = request.task]
        early == EarlyDoneSummary(request.task)
    IN IF IsDone(Strip(request.task))
       THEN IF early.raised THEN Raise(m, Uncaught("IndexError"))
            ELSE Finalize(m, early.summary, 0, NoAgent)
       ELSE LoopIteration(m)

\* Mutant: auto_loop is ignored; every call returns after its first step.
AfterAck_IgnoresAutoLoop(m0) ==
    LET m == [m0 EXCEPT !.journal =
                log_event_jsonl(@, [ts |-> ts, workflow_id |-> m0.workflow_id,
                                    type |-> "agent_response",
                                    agent |-> m0.sub_agent,
                                    response_preview |-> m0.agent_response])]
    IN Return(m, RouteResponse(m.workflow_id, m.step, m.sub_agent,
                               Message_step_complete, FALSE))

\* Lines 318-344 up to the call of the TaskRouter: log the response, and
\* return unless the call loops.
AfterAck(m0) ==
    LET m == [m0 EXCEPT !.journal =
                log_event_jsonl(@, [ts |-> ts, workflow_id |-> m0.workflow_id,
                                    type |-> "agent_response",
                                    agent |-> m0.sub_agent,
                                    response_preview |-> m0.agent_response])]
    IN IF ~m.auto_loop
       THEN Return(m, RouteResponse(m.workflow_id, m.step, m.sub_agent,
                                    Message_step_complete, FALSE))
       ELSE [m EXCEPT
                !.pc = "call_taskrouter_next_step",
                !.calls = Append(@, [call |-> "call_taskrouter_next_step",
                                     prev_agent |-> m.sub_agent,
                                     agent_response |-> m.agent_response])]

WarnEvent(m, first_line) ==
    [ts |-> ts, workflow_id |-> m.workflow_id, type |-> "warn",
     agent |-> m.sub_agent, warning |-> "rule_ack_missing_or_mismatch",
     expected |-> AckLine(m.sub_agent, RuleTitle(m.sub_agent)),
     received |-> first_line]

\* Lines 290-316, from the return of the first call_sub_agent.
AfterFirstResponse(m0, enforce, agent_response) ==
    LET m == [m0 EXCEPT !.agent_response = agent_response] IN
    IF ~(enforce /\ RuleTitle(m.sub_agent) # <<>>) THEN AfterAck(m)
    ELSE IF ~HasFirstLine(agent_response) THEN Raise(m, Uncaught("IndexError"))
    ELSE IF AckOk(FirstLine(agent_response), m.sub_agent) THEN AfterAck(m)
    ELSE LET warned == [m EXCEPT !.journal =
                            log_event_jsonl(@, WarnEvent(m, FirstLine(agent_response))),
                            !.retries = 0]
         IN IF warned.retries < MAX_ACK_RETRY
            THEN [warned EXCEPT
                    !.pc = "retry_call_sub_agent",
                    !.retries = @ + 1,
                    !.calls = Append(@, [call |-> "call_sub_agent",
                                         agent_key |-> m.agent_key,
                                         instruction |-> m.guarded_instruction])]
            ELSE AfterAck(warned)

\* Lines 312-316, from the return of a repeated call_sub_agent.
AfterRetryResponse(m0, agent_response) ==
    LET m == [m0 EXCEPT !.agent_response = agent_response] IN
    IF ~HasFirstLine(agent_response) THEN Raise(m, Uncaught("IndexError"))
    ELSE IF m.retries < MAX_ACK_RETRY
            /\ ~AckOk(FirstLine(agent_response), m.sub_agent)
        THEN [m EXCEPT
                !.retries = @ + 1,
                !.calls = Append(@, [call |-> "call_sub_agent",
                                     agent_key |-> m.agent_key,
                                     instruction |-> m.guarded_instruction])]
    ELSE AfterAck(m)

\* Mutant: the DONE marker is not looked for; every answer of the TaskRouter
\* is taken as the next routing line.
AfterOracle_IgnoresDone(m, oracle_answer) ==
    LoopIteration([m EXCEPT !.current_task = Strip(oracle_answer)])

\* Lines 333-344, from the return of call_taskrouter_next_step.
AfterOracle(m, oracle_answer) ==
    LET next_task == Strip(oracle_answer) IN
    IF IsDone(next_task)
    THEN Finalize(m,
                  IF HasNewline(next_task) THEN AfterNewline(next_task) ELSE <<>>,
                  m.step, m.sub_agent)
    ELSE LoopIteration([m EXCEPT !.current_task = next_task])

(***************************************************************************)
(* The router as a state machine: one route_task call, from the request    *)
(* to the response or the exception, with the answers of the two hooks     *)
(* chosen by the environment.                                              *)
(***************************************************************************)
\* "FileCreator: create index.html"
Task_CreateIndex ==
    <<"F", "i", "l", "e", "C", "r", "e", "a", "t", "o", "r", ":", " ", "c",
      "r", "e", "a", "t", "e", " ", "i", "n", "d", "e", "x", ".", "h", "t",
      "m", "l">>

\* "  GitWorkflow :\n commit\nall files \n": spaces around the colon, an
\* instruction of two lines, whitespace at both ends.
Task_CommitSpaced ==
    <<" ", " ", "G", "i", "t", "W", "o", "r", "k", "f", "l", "o", "w", " ",
      ":", "\n", " ", "c", "o", "m", "m", "i", "t", "\n", "a", "l", "l",
      " ", "f", "i", "l", "e", "s", " ", "\n">>

\* "DONE\nShipped v1"
Task_DoneShipped ==
    <<"D", "O", "N", "E", "\n", "S", "h", "i", "p", "p", "e", "d", " ",
      "v", "1">>

\* "DONE\n": the marker, then only a newline.
Task_DoneNewline ==
    <<"D", "O", "N", "E", "\n">>

\* "Bogus text with no colon"
Task_NoColon ==
    <<"B", "o", "g", "u", "s", " ", "t", "e", "x", "t", " ", "w", "i", "t",
      "h", " ", "n", "o", " ", "c", "o", "l", "o", "n">>

\* "Doner: slice kebab": a routing line whose agent name begins with the
\* letters of the marker.
Task_Doner ==
    <<"D", "o", "n", "e", "r", ":", " ", "s", "l", "i", "c", "e", " ", "k",
      "e", "b", "a", "b">>

RouteTasks ==
    {Task_CreateIndex, Task_CommitSpaced, Task_DoneShipped, Task_DoneNewline,
     Task_DoneLower, Task_NoColon, Task_UnknownAgent, Task_Doner}

\* "wf-42"
GivenWorkflowId == <<"w", "f", "-", "4", "2">>

\* A request body that also carries max_steps: RouteRequest declares no such
\* field (lines 95-99), and the body is read through that model, so the
\* handler never sees the value.
CappedRequests ==
    {[task |-> Task_CreateIndex, auto_loop |-> TRUE,
      workflow_id |-> GivenWorkflowId, from_taskrouter |-> FALSE,
      max_steps |-> 1]}

\* RouteRequest; the empty workflow_id stands for None.
RouteRequests ==
    [task : RouteTasks, auto_loop : BOOLEAN, workflow_id : {<<>>, GivenWorkflowId},
     from_taskrouter : BOOLEAN]
    \cup CappedRequests

\* What the files hold when the server starts: the trail of an earlier
\* workflow (the files are only ever appended to).
EarlierJournal ==
    <<[ts |-> ts, workflow_id |-> <<"w", "f", "-", "0">>, type |-> "done",
       summary |-> <<>>]>>

EarlierSummary ==
    <<AppendedText(FinalSummaryBlock(<<"w", "f", "-", "0">>, <<>>))>>

EarlierChangelog ==
    <<AppendedText(ChangelogBlock(<<"w", "f", "-", "0">>, <<>>))>>

RouterInit ==
    /\ TrackerIdle
    /\ OthersIdle
    /\ journal = EarlierJournal
    /\ build_summary = EarlierSummary
    /\ changelog = EarlierChangelog
    /\ rt = IdleLocals
    /\ reply = None
    /\ calls = <<>>
    /\ ENFORCE_RULE_ACK \in BOOLEAN

\* The call in progress with the files, as one record.
Machine ==
    [pc |-> rt.pc, request |-> rt.request, workflow_id |-> rt.workflow_id,
     auto_loop |-> rt.auto_loop, step |-> rt.step,
     current_task |-> rt.current_task, sub_agent |-> rt.sub_agent,
     raw_instruction |-> rt.raw_instruction,
     guarded_instruction |-> rt.guarded_instruction,
     agent_key |-> rt.agent_key, agent_response |-> rt.agent_response,
     retries |-> rt.retries,
     journal |-> journal, build_summary |-> build_summary,
     changelog |-> changelog, reply |-> reply, calls |-> calls]

\* The locals of a call that has just been received.
Received(request) ==
    [pc |-> "received", request |-> request, workflow_id |-> <<>>,
     auto_loop |-> request.auto_loop, step |-> 0,
     current_task |-> request.task, sub_agent |-> NoAgent,
     raw_instruction |-> <<>>, guarded_instruction |-> <<>>,
     agent_key |-> <<>>, agent_response |-> <<>>, retries |-> 0,
     journal |-> journal, build_summary |-> build_summary,
     changelog |-> changelog, reply |-> reply, calls |-> calls]

Locals(m) ==
    [pc |-> m.pc, request |-> m.request, workflow_id |-> m.workflow_id,
     auto_loop |-> m.auto_loop, step |-> m.step,
     current_task |-> m.current_task, sub_agent |-> m.sub_agent,
     raw_instruction |-> m.raw_instruction,
     guarded_instruction |-> m.guarded_instruction,
     agent_key |-> m.agent_key, agent_response |-> m.agent_response,
     retries |-> m.retries]

Route(request) ==
    /\ rt.pc = "idle"
    /\ LET m == RouteEntry(Received(request), request) IN
        /\ rt' = Locals(m)
        /\ journal' = m.journal
        /\ build_summary' = m.build_summary
        /\ changelog' = m.changelog
        /\ reply' = m.reply
        /\ calls' = m.calls
    /\ UNCHANGED <<ENFORCE_RULE_ACK, trackerVars, otherVars>>

SubAgentReturns(agent_response) ==
    /\ rt.pc = "call_sub_agent"
    /\ LET m == AfterFirstResponse(Machine, ENFORCE_RULE_ACK, agent_response) IN
        /\ rt' = Locals(m)
        /\ journal' = m.journal
        /\ build_summary' = m.build_summary
        /\ changelog' = m.changelog
        /\ reply' = m.reply
        /\ calls' = m.calls
    /\ UNCHANGED <<ENFORCE_RULE_ACK, trackerVars, otherVars>>

SubAgentReturnsAgain(agent_response) ==
    /\ rt.pc = "retry_call_sub_agent"
    /\ LET m == AfterRetryResponse(Machine, agent_response) IN
        /\ rt' = Locals(m)
        /\ journal' = m.journal
        /\ build_summary' = m.build_summary
        /\ changelog' = m.changelog
        /\ reply' = m.reply
        /\ calls' = m.calls
    /\ UNCHANGED <<ENFORCE_RULE_ACK, trackerVars, otherVars>>

TaskRouterReturns(oracle_answer) ==
    /\ rt.pc = "call_taskrouter_next_step"
    /\ LET m == AfterOracle(Machine, oracle_answer) IN
        /\ rt' = Locals(m)
        /\ journal' = m.journal
        /\ build_summary' = m.build_summary
        /\ changelog' = m.changelog
        /\ reply' = m.reply
        /\ calls' = m.calls
    /\ UNCHANGED <<ENFORCE_RULE_ACK, trackerVars, otherVars>>

\* A hook that raises: nothing in route_task catches it.
HookRaises ==
    /\ rt.pc \in {"call_sub_agent", "retry_call_sub_agent",
                  "call_taskrouter_next_step"}
    /\ rt' = [rt EXCEPT !.pc = "raised"]
    /\ reply' = Uncaught("HookError")
    /\ UNCHANGED <<journal, build_summary, changelog, calls, ENFORCE_RULE_ACK,
                   trackerVars, otherVars>>

NextRouter ==
    \/ \E request \in RouteRequests : Route(request)
    \/ \E agent_response \in WorkerResponses(rt.agent_key, rt.guarded_instruction) :
        SubAgentReturns(agent_response)
    \/ \E agent_response \in WorkerResponses(rt.agent_key, rt.guarded_instruction) :
        SubAgentReturnsAgain(agent_response)
    \/ \E oracle_answer \in OracleResponses(rt.sub_agent, rt.agent_response) :
        TaskRouterReturns(oracle_answer)
    \/ HookRaises

SpecRouter == RouterInit /\ [][NextRouter]_vars

(***************************************************************************)
(* Properties of one route_task call.                                      *)
(***************************************************************************)
OracleCalls == {i \in DOMAIN calls : calls[i].call = "call_taskrouter_next_step"}

WorkerCalls == {i \in DOMAIN calls : calls[i].call = "call_sub_agent"}

StepEvents == {i \in DOMAIN journal : journal[i].type = "step"}

\* The call in progress is a request for a single step: a routing line for
\* a roster agent, auto_loop false, from_taskrouter false.
SingleStepCall ==
    /\ rt.pc # "idle"
    /\ ~rt.request.auto_loop
    /\ ~rt.request.from_taskrouter
    /\ ~IsDone(Strip(rt.request.task))
    /\ parse_routing_line(rt.request.task).matched
    /\ DictHas(SUB_AGENTS, parse_routing_line(rt.request.task).sub_agent)

\* What a single-step call has done at every point after its entry: one
\* step, for the routed agent, persisted as one step event and one line of
\* build-summary.md that holds the instruction text, and no question to the
\* TaskRouter.
SingleStepTrail ==
    LET parsed == parse_routing_line(rt.request.task) IN
    /\ rt.step = 1
    /\ rt.sub_agent = parsed.sub_agent
    /\ OracleCalls = {}
    /\ rt.pc # "call_taskrouter_next_step"
    /\ Cardinality(StepEvents) = 1
    /\ Len(build_summary) = Len(EarlierSummary) + 1
    /\ Contains(build_summary[Len(build_summary)], parsed.instruction)
    /\ changelog = EarlierChangelog

\* The single-step part of C10 that needs no answer from route_task: it
\* holds in every state of a single-step call.
SingleStepCallKeepsTrail == SingleStepCall => SingleStepTrail

\* C10: a route call with a well-formed task for a roster agent, auto_loop
\* false and from_taskrouter false executes exactly one step: unless a hook
\* itself fails, it ends by returning step 1, the name of the routed agent
\* and done false; at no point has it asked the TaskRouter for a next
\* step, and build-summary.md has gained one line that contains the
\* instruction text.
C10_SingleStepCallReturnsStepOne ==
    SingleStepCall =>
        /\ SingleStepTrail
        /\ \/ rt.pc \in {"call_sub_agent", "retry_call_sub_agent"}
           \/ /\ rt.pc = "returned"
              /\ reply = RouteResponse(rt.workflow_id, 1,
                                       parse_routing_line(rt.request.task).sub_agent,
                                       Message_step_complete, FALSE)
           \/ /\ rt.pc = "raised"
              /\ reply = Uncaught("HookError")

\* A single-step call that has returned its response.
C10_Witness ==
    /\ SingleStepCall
    /\ rt.pc = "returned"
    /\ reply.step = 1
    /\ reply.done = FALSE
    /\ WorkerCalls # {}

\* The call in progress was given a DONE marker as its task.
DoneCall == rt.pc # "idle" /\ IsDone(Strip(rt.request.task))

\* The summary a DONE text carries: what follows the first newline of the
\* trimmed text, or nothing.
DoneSummary(text) ==
    IF HasNewline(Strip(text)) THEN AfterNewline(Strip(text)) ELSE <<>>

\* C11: a route call whose task (trimmed, case-insensitive) starts with DONE
\* calls neither hook, appends a final-summary block with the summary (the
\* text after the first newline) to build-summary.md, writes one done event
\* to the journal, and returns a response with done true.
C11_DoneTaskFinalizes ==
    DoneCall =>
        /\ calls = <<>>
        /\ rt.pc = "returned"
        /\ reply.done = TRUE
        /\ Len(build_summary) = Len(EarlierSummary) + 1
        /\ Contains(build_summary[Len(build_summary)],
                    <<" [U+2014] Final Summary (">>)
        /\ Contains(build_summary[Len(build_summary)],
                    DoneSummary(rt.request.task))
        /\ Len(journal) = Len(EarlierJournal) + 1
        /\ journal[Len(journal)].type = "done"
        /\ journal[Len(journal)].summary = DoneSummary(rt.request.task)

\* A DONE task with a summary that was finalized.
C11_Witness ==
    /\ DoneCall
    /\ rt.pc = "returned"
    /\ reply.done = TRUE
    /\ DoneSummary(rt.request.task) # <<>>
    /\ journal[Len(journal)].summary = DoneSummary(rt.request.task)

\* The call in progress was given a task that is neither a DONE marker nor
\* a routing line.
MalformedCall ==
    /\ rt.pc # "idle"
    /\ ~IsDone(Strip(rt.request.task))
    /\ ~parse_routing_line(rt.request.task).matched

\* C12: a route call whose task is neither a DONE marker nor a routing line
\* is rejected with the invalid_format error (400); no hook has been
\* called and nothing has been written to the journal, to build-summary.md
\* or to CHANGELOG.md.
C12_MalformedTaskRejected ==
    MalformedCall =>
        /\ rt.pc = "raised"
        /\ reply = HTTPException("invalid_format", NoAgent)
        /\ calls = <<>>
        /\ StepEvents = {}
        /\ journal = EarlierJournal
        /\ build_summary = EarlierSummary
        /\ changelog = EarlierChangelog

C12_Witness ==
    /\ MalformedCall
    /\ rt.request.task = Task_NoColon
    /\ rt.pc = "raised"
    /\ reply.status_code = 400

\* The call in progress was given a routing line for an agent that is not
\* in SUB_AGENTS.
UnknownAgentCall ==
    /\ rt.pc # "idle"
    /\ ~IsDone(Strip(rt.request.task))
    /\ parse_routing_line(rt.request.task).matched
    /\ ~DictHas(SUB_AGENTS, parse_routing_line(rt.request.task).sub_agent)

\* C13: a route call whose task names an agent that is not in the roster
\* writes an unknown_agent event to the journal and returns a response; it
\* calls no worker and raises no error.
C13_UnknownAgentReported ==
    UnknownAgentCall =>
        /\ calls = <<>>
        /\ rt.pc = "returned"
        /\ \E i \in DOMAIN journal :
            /\ i > Len(EarlierJournal)
            /\ journal[i].type = "unknown_agent"

WarnEvents == {i \in DOMAIN journal : journal[i].type = "warn"}

ResponseEvents == {i \in DOMAIN journal : journal[i].type = "agent_response"}

\* This step is the return of a worker call to route_task (the hook has
\* answered, it has not raised).
WorkerAnswers ==
    /\ rt.pc \in {"call_sub_agent", "retry_call_sub_agent"}
    /\ ~(rt'.pc = "raised" /\ reply' = Uncaught("HookError"))

\* After this step route_task goes on with the step: it has logged the
\* response and either returned or asked the TaskRouter.
StepProceeds ==
    /\ rt'.pc \in {"returned", "call_taskrouter_next_step"}
    /\ Len(journal') = Len(journal) + 1
    /\ journal'[Len(journal')].type = "agent_response"
    /\ journal'[Len(journal')].response_preview = rt'.agent_response
    /\ {i \in DOMAIN calls' : calls'[i].call = "call_sub_agent"} = WorkerCalls

\* C14: with ack enforcement on, a first response whose first line is not
\* the required acknowledgment makes the router write one warn event and
\* call the worker once more with the same guarded instruction, and after
\* the second response, whatever it is, the router proceeds with the step;
\* a first response that acknowledges makes the router proceed at once,
\* with no warn event and no second call.
C14_AckMismatchRetriedOnce ==
    [][(WorkerAnswers /\ ENFORCE_RULE_ACK) =>
        /\ (/\ rt.pc = "call_sub_agent"
            /\ HasFirstLine(rt'.agent_response)
            /\ ~AckOk(FirstLine(rt'.agent_response), rt.sub_agent))
            => /\ rt'.pc = "retry_call_sub_agent"
               /\ Len(journal') = Len(journal) + 1
               /\ journal'[Len(journal')].type = "warn"
               /\ Len(calls') = Len(calls) + 1
               /\ calls'[Len(calls')] = calls[Len(calls)]
        /\ (rt.pc = "retry_call_sub_agent") => StepProceeds
        /\ (/\ rt.pc = "call_sub_agent"
            /\ HasFirstLine(rt'.agent_response)
            /\ AckOk(FirstLine(rt'.agent_response), rt.sub_agent))
            => StepProceeds]_vars

\* A repeated call has been answered and the step went on, with one warn
\* event and two calls of the worker.
C14_Witness ==
    /\ ENFORCE_RULE_ACK
    /\ rt.pc = "returned"
    /\ Cardinality(WarnEvents) = 1
    /\ Cardinality(WorkerCalls) = 2
    /\ Cardinality(ResponseEvents) = 1

\* C15: ack validation never raises: whatever text a worker call returns,
\* the empty text included, route_task either repeats the call (once) or
\* logs the response and goes on with the step.
C15_AckValidationNeverRaises ==
    [][WorkerAnswers => (rt'.pc = "retry_call_sub_agent" \/ StepProceeds)]_vars

\* The call in progress has returned because of the safety cap.
StoppedByCap ==
    /\ rt.pc = "returned"
    /\ journal[Len(journal)].type = "stopped_max_steps"

\* This step is the return of call_taskrouter_next_step to route_task (the
\* hook has answered, it has not raised).
OracleAnswers ==
    /\ rt.pc = "call_taskrouter_next_step"
    /\ ~(rt'.pc = "raised" /\ reply' = Uncaught("HookError"))

\* C16: one route call never executes more than MAX_STEPS steps; a call
\* stopped by the cap has executed exactly MAX_STEPS steps; and when
\* MAX_STEPS steps are done and the TaskRouter does not answer DONE, the
\* call stops there, whatever the answer is.
C16_LoopHaltsAtMaxSteps ==
    /\ [](/\ Cardinality(StepEvents) <= MAX_STEPS
          /\ StoppedByCap => Cardinality(StepEvents) = MAX_STEPS)
    /\ [][(/\ OracleAnswers
           /\ Cardinality(StepEvents) = MAX_STEPS
           /\ journal'[Len(journal')].type # "done")
          => (/\ rt'.pc = "returned"
              /\ journal'[Len(journal')].type = "stopped_max_steps"
              /\ calls' = calls)]_vars

C16_Witness ==
    /\ StoppedByCap
    /\ Cardinality(StepEvents) = MAX_STEPS
    /\ Cardinality(OracleCalls) = MAX_STEPS

\* C17: the step field of the response of a call stopped by the cap
\* equals MAX_STEPS.
C17_StoppedStepIsMaxSteps ==
    StoppedByCap => reply.step = MAX_STEPS

\* C18: a call stopped by the cap has persisted a stopped event and
\* returns a response with done false, and the stop is not recorded as a
\* completed workflow (nothing is added to CHANGELOG.md).
C18_CapStopIsNotCompletion ==
    StoppedByCap =>
        /\ reply.done = FALSE
        /\ changelog = EarlierChangelog

\* What route_task has done once it has finalized with the summary of the
\* DONE text the TaskRouter answered: no further hook call, the final
\* summary in both markdown files, a done event, a response with done true
\* for the step and agent that ran last.
FinalizedAfterOracle(oracle_answer) ==
    /\ rt'.pc = "returned"
    /\ reply'.done = TRUE
    /\ reply'.step = rt.step
    /\ reply'.agent = rt.sub_agent
    /\ calls' = calls
    /\ Len(journal') = Len(journal) + 1
    /\ journal'[Len(journal')].type = "done"
    /\ journal'[Len(journal')].summary = DoneSummary(oracle_answer)
    /\ Len(build_summary') = Len(build_summary) + 1
    /\ Contains(build_summary'[Len(build_summary')], DoneSummary(oracle_answer))
    /\ Len(changelog') = Len(changelog) + 1
    /\ Contains(changelog'[Len(changelog')], DoneSummary(oracle_answer))

\* C19: in auto-loop mode, when call_taskrouter_next_step answers a text
\* that (trimmed, in any case) starts with DONE, route_task calls no
\* further hook, persists the final summary and a done event, and returns
\* a response with done true.
C19_OracleDoneFinalizes ==
    [][\A oracle_answer \in OracleResponses(rt.sub_agent, rt.agent_response) :
            (/\ IsDone(Strip(oracle_answer))
             /\ TaskRouterReturns(oracle_answer))
            => FinalizedAfterOracle(oracle_answer)]_vars

\* A loop that the TaskRouter ended with a DONE that carries a summary.
C19_Witness ==
    /\ rt.pc = "returned"
    /\ rt.auto_loop
    /\ OracleCalls # {}
    /\ reply.done = TRUE
    /\ journal[Len(journal)].type = "done"
    /\ journal[Len(journal)].summary # <<>>

\* The call in progress loops (auto_loop, or a kickoff from the TaskRouter).
AutoLoopCall == rt.pc # "idle" /\ rt.auto_loop

Terminated == rt.pc \in {"returned", "raised"}

\* A step of route_task is possible exactly while the call has not ended:
\* the request can be delivered, and a pending hook call can come back
\* with an answer or an exception.
RouterRunning == ~Terminated

\* One route_task call that runs on whenever it can: the handler is
\* synchronous, and every hook call comes back (with an answer or an
\* exception).  This is the weak fairness of NextRouter, WF_vars(NextRouter),
\* written out with RouterRunning for ENABLED <<NextRouter>>_vars.
SpecRouterLive ==
    /\ RouterInit
    /\ [][NextRouter]_vars
    /\ (<>[]RouterRunning => []<><<NextRouter>>_vars)

\* C20: every auto-loop route call terminates when every hook call comes
\* back: it ends with a done event (a DONE), a stopped_max_steps event (the
\* cap) or an error, and by then at most MAX_STEPS steps have called a
\* worker.  Once ended, the call takes no further step.
C20_AutoLoopTerminates ==
    /\ AutoLoopCall ~> Terminated
    /\ [][RouterRunning]_vars
    /\ [](AutoLoopCall /\ Terminated =>
            /\ Cardinality(StepEvents) <= MAX_STEPS
            /\ Cardinality(WorkerCalls) <= MAX_STEPS * (1 + MAX_ACK_RETRY)
            /\ rt.step <= MAX_STEPS + 1
            /\ (rt.pc = "returned" =>
                    journal[Len(journal)].type \in {"done", "stopped_max_steps"}))

\* An auto-loop call that ran MAX_STEPS steps and was ended by a DONE.
C20_Witness ==
    /\ AutoLoopCall
    /\ Terminated
    /\ Cardinality(StepEvents) = MAX_STEPS
    /\ journal[Len(journal)].type = "done"

\* A kickoff: the request comes from the TaskRouter and does not set
\* auto_loop.
KickoffCall ==
    /\ rt.pc # "idle"
    /\ rt.request.from_taskrouter
    /\ ~rt.request.auto_loop

\* C21: a request with from_taskrouter true and no explicit auto_loop runs
\* in auto-loop mode.  It never returns step_complete with done false after
\* one step: when it returns, the last event of the journal is a done or a
\* stopped_max_steps event and the response says done; otherwise it ends
\* with an error.
C21_KickoffRunsAutoLoop ==
    KickoffCall =>
        /\ rt.auto_loop
        /\ rt.pc = "returned" =>
            /\ reply.message # Message_step_complete
            /\ reply.done = TRUE
            /\ journal[Len(journal)].type \in {"done", "stopped_max_steps"}

\* A kickoff that went on after its first step: the TaskRouter was asked,
\* a second step ran, and the call returned.
C21_Witness ==
    /\ KickoffCall
    /\ rt.pc = "returned"
    /\ Cardinality(StepEvents) >= 2
    /\ OracleCalls # {}

\* The cap the request of the call in progress asks for: its max_steps when
\* it carries one, the configured MAX_STEPS otherwise.
RequestedCap ==
    IF "max_steps" \in DOMAIN rt.request THEN rt.request.max_steps
    ELSE MAX_STEPS

\* C22: the max_steps of a route request, when given, is the step cap of
\* that call, and the configured cap applies only when the request gives
\* none: a call never runs more steps than its cap, and a call stopped by
\* the cap has run exactly that many.
C22_RequestMaxStepsIsTheCap ==
    rt.pc # "idle" =>
        /\ Cardinality(StepEvents) <= RequestedCap
        /\ StoppedByCap => Cardinality(StepEvents) = RequestedCap

\* The journal event that describes how the call in progress ended: done
\* for a DONE, stopped_max_steps for the cap, unknown_agent for an agent
\* outside the roster, error for a task that is no routing line and for a
\* hook that failed.
OutcomeEventTypes ==
    IF rt.pc = "returned"
    THEN IF reply.message = Message_done THEN {"done"}
         ELSE IF reply.message = StoppedSummary THEN {"stopped_max_steps"}
         ELSE {"agent_response"}
    ELSE IF reply = HTTPException("invalid_format", NoAgent) THEN {"error"}
    ELSE IF reply.status_code = 400 THEN {"unknown_agent"}
    ELSE {"error"}

\* C23: every way a route call can end (DONE, the cap, a format error, an
\* unknown agent, a hook failure) has its journal event appended before the
\* response or the error reaches the caller: at the end of a call the last
\* event of the journal was written by this call and describes the outcome.
C23_EveryOutcomeIsLogged ==
    Terminated =>
        /\ Len(journal) > Len(EarlierJournal)
        /\ journal[Len(journal)].type \in OutcomeEventTypes

\* A hook call of the call in progress fails: the worker or the TaskRouter
\* raises instead of answering.
HookFails ==
    /\ rt.pc \in {"call_sub_agent", "retry_call_sub_agent",
                  "call_taskrouter_next_step"}
    /\ rt'.pc = "raised"
    /\ reply' = Uncaught("HookError")

\* C24: when a worker or TaskRouter call fails, the loop halts with no
\* further hook call, and the journal holds no step event for the step
\* whose invocation failed: every step event in it is followed by the
\* agent_response event of that step, so the trail shows the workflow at
\* its last completed step.
C24_FailedStepLeavesNoStepEvent ==
    [][HookFails =>
        /\ calls' = calls
        /\ Cardinality({i \in DOMAIN journal' : journal'[i].type = "step"})
            = Cardinality({i \in DOMAIN journal' :
                              journal'[i].type = "agent_response"})]_vars

\* The call in progress waits for the worker of its current step: the
\* worker has been invoked and has not answered yet, or its first answer
\* failed the acknowledgment and the repeated call is out.
AwaitingWorker == rt.pc \in {"call_sub_agent", "retry_call_sub_agent"}

\* C28: in each iteration the step event and its narrative line are
\* persisted after the worker has been invoked and its acknowledgment
\* validated (parse, guard, invoke, validate, persist, continue or finish):
\* while the call waits for the worker of step k, the journal holds the
\* step events of the k - 1 steps before it only, and build-summary.md
\* their k - 1 lines.
C28_StepPersistedAfterAck ==
    AwaitingWorker =>
        /\ Cardinality(StepEvents) = rt.step - 1
        /\ Len(build_summary) = Len(EarlierSummary) + rt.step - 1

\* C29: in auto-loop mode the TaskRouter is asked for a next task only
\* while the step count is below MAX_STEPS; once it equals MAX_STEPS the
\* call stops without asking, so a call stopped by the cap has made at most
\* MAX_STEPS - 1 TaskRouter calls.
C29_OracleNotAskedAtCap ==
    /\ rt.pc = "call_taskrouter_next_step" => rt.step < MAX_STEPS
    /\ StoppedByCap => Cardinality(OracleCalls) <= MAX_STEPS - 1

\* The event types of the spec's data model.
SpecEventTypes ==
    {"step", "done", "error", "unknown_agent", "stopped", "aborted", "warn",
     "agent_response"}

\* The same, with the name the code gives the event of the cap.
CodeEventTypes ==
    (SpecEventTypes \ {"stopped"}) \cup {"stopped_max_steps"}

\* The journal after a step still begins with every record it held.
JournalOnlyGrows ==
    /\ Len(journal') >= Len(journal)
    /\ SubSeq(journal', 1, Len(journal)) = journal

MaxInstructionLen == 2

InstructionAlphabet == {"x", " ", "\n", ":"}

RECURSIVE TextsOfLen(_, _)
TextsOfLen(alphabet, n) ==
    IF n = 0 THEN {<<>>}
    ELSE {<<c>> \o t : c \in alphabet, t \in TextsOfLen(alphabet, n - 1)}

\* "create index.html"
Text_CreateIndex ==
    <<"c", "r", "e", "a", "t", "e", " ", "i", "n", "d", "e", "x", ".", "h",
      "t", "m", "l">>

\* "Task: x": an instruction that begins like the last part of a guarded
\* instruction.
Text_TaskFirst == TaskMarker \o <<"x">>

\* "a\nTask: b\n\nTask: c": an instruction with lines that begin that way.
Text_TaskInside ==
    <<"a", "\n">> \o TaskMarker \o <<"b", "\n", "\n">> \o TaskMarker \o <<"c">>

InstructionTexts ==
    UNION {TextsOfLen(InstructionAlphabet, n) : n \in 1..MaxInstructionLen}
    \cup {Text_CreateIndex, Text_TaskFirst, Text_TaskInside}

\* Names of the grammar [A-Za-z][A-Za-z0-9_-]+: a roster agent, an agent
\* called Task, names outside the roster; and "A", which is too short.
GuardAgentNames ==
    {<<"F", "i", "l", "e", "C", "r", "e", "a", "t", "o", "r">>,
     <<"T", "a", "s", "k">>,
     <<"A", "b">>,
     <<"a", "-", "1", "_">>,
     <<"A">>}

GuardSeparators == {<<":", " ">>, <<" ", ":">>}

GuardRuns ==
    [pc : {"task"}, agent : GuardAgentNames, separator : GuardSeparators,
     text : InstructionTexts, sub_agent : {<<>>}, raw_instruction : {<<>>},
     guarded_instruction : {<<>>}]

\* The task text of a run.
TaskOf(run) == run.agent \o run.separator \o run.text

GuardInit ==
    /\ TrackerIdle
    /\ RouterIdle
    /\ sink = [pc |-> "idle"]
    /\ tool = [pc |-> "idle"]
    /\ guard_run \in GuardRuns

\* Line 269: sub_agent, raw_instruction = parse_routing_line(current_task)
ParseTask ==
    /\ guard_run.pc = "task"
    /\ LET parsed == parse_routing_line(TaskOf(guard_run)) IN
        guard_run' =
            IF parsed.matched
            THEN [guard_run EXCEPT !.pc = "parsed",
                                   !.sub_agent = parsed.sub_agent,
                                   !.raw_instruction = parsed.instruction]
            ELSE [guard_run EXCEPT !.pc = "rejected"]
    /\ UNCHANGED <<trackerVars, routerVars, sink, tool>>

\* Line 275: guarded_instruction = guard_instruction(sub_agent, raw_instruction)
GuardTask ==
    /\ guard_run.pc = "parsed"
    /\ guard_run' =
        [guard_run EXCEPT
            !.pc = "guarded",
            !.guarded_instruction =
                guard_instruction(guard_run.sub_agent, guard_run.raw_instruction)]
    /\ UNCHANGED <<trackerVars, routerVars, sink, tool>>

NextGuard == ParseTask \/ GuardTask

SpecGuard == GuardInit /\ [][NextGuard]_vars

\* The position of the first line break of text at or after from that is
\* followed by "Task: ", or Len(text) + 1.
RECURSIVE FindTaskMarker(_, _)
FindTaskMarker(text, from) ==
    IF from > Len(text) THEN from
    ELSE IF text[from] = "\n" /\ StartsWith(Drop(text, from + 1), TaskMarker)
        THEN from
    ELSE FindTaskMarker(text, from + 1)

\* Reading a guarded instruction back: the agent is the name the routing
\* grammar finds at its start, and the task section is what follows the
\* first "Task: " that opens a line after the first.
ExtractAgent(guarded_instruction) ==
    parse_routing_line(guarded_instruction).sub_agent

ExtractTask(guarded_instruction) ==
    Drop(guarded_instruction,
         FindTaskMarker(guarded_instruction, 1) + 1 + Len(TaskMarker))

\* C27: parsing a task "<Agent>: <text>" and then extracting the agent and
\* the task section from the guarded instruction built for it yields the
\* identical (agent, text) pair, for every agent name and instruction text
\* the routing grammar accepts: the parsed pair is the name and the trimmed
\* text of the task, and the guarded instruction gives back that pair.
C27_GuardRoundTrip ==
    /\ guard_run.pc \in {"parsed", "guarded"} =>
        /\ guard_run.sub_agent = guard_run.agent
        /\ guard_run.raw_instruction = Strip(guard_run.text)
    /\ guard_run.pc = "guarded" =>
        /\ ExtractAgent(guard_run.guarded_instruction) = guard_run.sub_agent
        /\ ExtractTask(guard_run.guarded_instruction) = guard_run.raw_instruction

\* The guarded instruction of an agent called Task, outside the roster,
\* whose instruction has lines that begin with "Task: ".
C27_Witness ==
    /\ guard_run.pc = "guarded"
    /\ guard_run.sub_agent = <<"T", "a", "s", "k">>
    /\ guard_run.raw_instruction = Text_TaskInside

(***************************************************************************)
(* The log files under concurrent requests.  route_task is a plain def     *)
(* handler, so the server runs each request in a thread of its own; the    *)
(* handlers share the three files and nothing else.  Every append opens    *)
(* the file in append mode, writes and closes (append_text,                *)
(* log_event_jsonl): no lock or other primitive of the program orders two  *)
(* appends.  What is left to the platform is whether the text of one write *)
(* reaches the file in one piece.                                          *)
(***************************************************************************)
\* The pieces in which one write reaches the file where the platform does
\* not append it atomically.
PiecesPerWrite == 2

SinkThreads == {"thread-1", "thread-2"}

\* The workflow each thread routes.
SinkWorkflowOf(thread) == IF thread = "thread-1" THEN "wf-a" ELSE "wf-b"

SinkFiles == {"journal", "build_summary", "changelog"}

\* The appends of a route_task call, in the order of the source: a call of
\* one step without auto_loop (lines 278-325), and a call with a DONE task
\* (lines 253-254, finalize_markdown first).
SinkAppends(kind) ==
    IF kind = "single_step"
    THEN << [file |-> "build_summary", record |-> "step_line"],
            [file |-> "journal", record |-> "step"],
            [file |-> "journal", record |-> "agent_response"] >>
    ELSE << [file |-> "build_summary", record |-> "final_summary"],
            [file |-> "changelog", record |-> "completed"],
            [file |-> "journal", record |-> "done"] >>

SinkCallKinds == {"single_step", "done"}

\* Piece number part of the text that thread writes in its append entry.
SinkPiece(thread, entry, part) ==
    [workflow_id |-> SinkWorkflowOf(thread), record |-> entry.record,
     part |-> part]

\* The whole text of one write, as its pieces in order.
SinkText(thread, entry) ==
    [part \in 1..PiecesPerWrite |-> SinkPiece(thread, entry, part)]

\* The answer of the server to a request for an operation it has no handler
\* for: the app defines GET /health and POST /route only.
NotFound(workflow_id) == [status_code |-> 404, workflow_id |-> workflow_id]

\* The ids abort is asked for: a workflow that is being routed, and one the
\* server has never seen.
AbortIds == {"wf-a", "wf-unknown"}

SinkInit ==
    /\ TrackerIdle
    /\ RouterIdle
    /\ guard_run = [pc |-> "idle"]
    /\ tool = [pc |-> "idle"]
    /\ sink \in
        [pc : {"serving"},
         atomic_append : BOOLEAN,
         files : {[f \in SinkFiles |-> <<>>]},
         threads : [SinkThreads ->
                        [kind : SinkCallKinds, next : {1}, part : {1}]],
         abort_reply : {None}]

\* with open(path, "a") as fh: fh.write(text), on a platform that appends
\* the text of one write atomically.
AppendWhole(thread) ==
    LET th == sink.threads[thread]
        todo == SinkAppends(th.kind)
    IN /\ sink.pc = "serving"
       /\ sink.atomic_append
       /\ th.next <= Len(todo)
       /\ sink' = [sink EXCEPT
            !.files[todo[th.next].file] = @ \o SinkText(thread, todo[th.next]),
            !.threads[thread].next = @ + 1]
       /\ UNCHANGED <<trackerVars, routerVars, guard_run, tool>>

\* The same write where the text reaches the file piece by piece: another
\* thread's write may come in between.
AppendPiece(thread) ==
    LET th == sink.threads[thread]
        todo == SinkAppends(th.kind)
    IN /\ sink.pc = "serving"
       /\ ~sink.atomic_append
       /\ th.next <= Len(todo)
       /\ sink' = [sink EXCEPT
            !.files[todo[th.next].file] =
                Append(@, SinkPiece(thread, todo[th.next], th.part)),
            !.threads[thread].part =
                IF th.part = PiecesPerWrite THEN 1 ELSE th.part + 1,
            !.threads[thread].next =
                IF th.part = PiecesPerWrite THEN th.next + 1 ELSE th.next]
       /\ UNCHANGED <<trackerVars, routerVars, guard_run, tool>>

\* A request to abort a workflow: the server has no such operation, answers
\* 404 and writes nothing.
RequestAbort(workflow_id) ==
    /\ sink.pc = "serving"
    /\ sink' = [sink EXCEPT !.abort_reply = NotFound(workflow_id)]
    /\ UNCHANGED <<trackerVars, routerVars, guard_run, tool>>

NextSink ==
    \/ \E thread \in SinkThreads : AppendWhole(thread)
    \/ \E thread \in SinkThreads : AppendPiece(thread)
    \/ \E workflow_id \in AbortIds : RequestAbort(workflow_id)

SpecSink == SinkInit /\ [][NextSink]_vars

\* Every piece in file that is not the first of its text directly follows
\* the piece before it of the same text.
WholeRecords(file) ==
    \A i \in DOMAIN file :
        file[i].part > 1 =>
            /\ i > 1
            /\ file[i - 1] = [file[i] EXCEPT !.part = @ - 1]

\* C25: appends to the three log files are atomic under concurrent route
\* calls: every journal record and every narrative line or block appears
\* whole, never interleaved with text of another append.
C25_AppendsAreAtomic ==
    \A f \in SinkFiles : WholeRecords(sink.files[f])

\* Where the platform appends each write atomically the records are whole.
AtomicPlatformKeepsRecordsWhole ==
    sink.atomic_append => C25_AppendsAreAtomic

\* C26: abort(workflow_id) appends an aborted narrative line and an aborted
\* audit event for any workflow id, whether or not the workflow exists or
\* is running, and succeeds in the same way when it is called again.
C26_AbortAlwaysRecords ==
    [][\A workflow_id \in AbortIds :
        RequestAbort(workflow_id) =>
            /\ sink'.abort_reply # NotFound(workflow_id)
            /\ Len(sink'.files["journal"]) > Len(sink.files["journal"])
            /\ sink'.files["journal"][Len(sink'.files["journal"])].record
                = "aborted"
            /\ Len(sink'.files["build_summary"])
                > Len(sink.files["build_summary"])]_vars

(***************************************************************************)
(* The workflow id of a call.                                              *)
(***************************************************************************)
\* The call in progress was given a workflow id.
GivenIdCall ==
    /\ rt.pc # "idle"
    /\ rt.request.workflow_id # <<>>

\* What this call appended to each file: the files held the trail of the
\* earlier workflow when the call arrived.
CallEvents == SubSeq(journal, Len(EarlierJournal) + 1, Len(journal))

CallNarrative == SubSeq(build_summary, Len(EarlierSummary) + 1, Len(build_summary))

CallChangelog == SubSeq(changelog, Len(EarlierChangelog) + 1, Len(changelog))

\* A narrative text names the id: in backquotes (a step line), in
\* parentheses (the final summary heading) or after the word Workflow (the
\* changelog heading).
NamesWorkflow(text, workflow_id) ==
    \/ Contains(text, <<Backquote>> \o workflow_id \o <<Backquote>>)
    \/ Contains(text, <<" [U+2014] Final Summary (">> \o workflow_id \o <<")", "\n">>)
    \/ Contains(text, <<" [U+2014] Workflow ">> \o workflow_id \o <<" Completed", "\n">>)

\* C31: a workflow id given in the request is used verbatim: every journal
\* event and every narrative text written during the call, over all
\* iterations of the loop, and the returned response carry exactly that id.
C31_GivenWorkflowIdVerbatim ==
    GivenIdCall =>
        /\ rt.workflow_id = rt.request.workflow_id
        /\ \A i \in DOMAIN CallEvents :
            CallEvents[i].workflow_id = rt.request.workflow_id
        /\ \A i \in DOMAIN CallNarrative :
            NamesWorkflow(CallNarrative[i], rt.request.workflow_id)
        /\ \A i \in DOMAIN CallChangelog :
            NamesWorkflow(CallChangelog[i], rt.request.workflow_id)
        /\ rt.pc = "returned" => reply.workflow_id = rt.request.workflow_id

\* An auto-loop call with a given id that ran two steps or more, wrote its
\* final blocks and returned.
C31_Witness ==
    /\ GivenIdCall
    /\ rt.pc = "returned"
    /\ Cardinality(StepEvents) >= 2
    /\ Len(CallNarrative) >= 3
    /\ Len(CallChangelog) >= 1
    /\ reply.workflow_id = GivenWorkflowId

(***************************************************************************)
(* The completed set and the execution log of a workflow.                  *)
(***************************************************************************)
\* A step of the tracker keeps every workflow and every completed step.
CompletedSetsGrow ==
    \A w \in DOMAIN workflows :
        /\ w \in DOMAIN workflows'
        /\ workflows[w].completed_steps \subseteq workflows'[w].completed_steps

\* A process_step_completion call that stores anything adds the step number
\* it reports, which was not in the completed set before, and no other.
CompletionAddsOneNewStep ==
    (/\ lastCall'.op = "process_step_completion"
     /\ workflows' # workflows)
    => /\ lastCall'.workflow_id \in DOMAIN workflows
       /\ lastCall'.step_number
            \notin workflows[lastCall'.workflow_id].completed_steps
       /\ workflows'[lastCall'.workflow_id].completed_steps
            = workflows[lastCall'.workflow_id].completed_steps
                \cup {lastCall'.step_number}

\* C32: the completed set of a workflow is always a subset of the step
\* numbers declared in its plan, only grows, and each step number enters it
\* at most once, after any sequence of process_step_completion calls.
C32_CompletedSetGrowsWithinPlan ==
    /\ [](\A w \in DOMAIN workflows :
            workflows[w].completed_steps \subseteq Declared(workflows[w]))
    /\ [][CompletedSetsGrow /\ CompletionAddsOneNewStep]_vars

\* Both declared steps are completed, and a further report of one of them
\* has just been turned away.
C32_Witness ==
    /\ lastCall.op = "process_step_completion"
    /\ response = Error("step_already_completed")
    /\ workflows[lastCall.workflow_id].completed_steps = {1, 2}
    /\ Declared(workflows[lastCall.workflow_id]) = {1, 2}

\* Every execution log still begins with the entries it held, and a
\* completion that is answered with continue or complete adds exactly one
\* entry, for the step it reports, at the end.
LogsOnlyGrow ==
    /\ \A w \in DOMAIN workflows :
        /\ w \in DOMAIN workflows'
        /\ Len(workflows'[w].execution_log) >= Len(workflows[w].execution_log)
        /\ SubSeq(workflows'[w].execution_log, 1,
                  Len(workflows[w].execution_log)) = workflows[w].execution_log
    /\ (AcceptedCompletion /\ ~IsError(response')) =>
        LET before == workflows[lastCall'.workflow_id].execution_log
            after == workflows'[lastCall'.workflow_id].execution_log
        IN  /\ Len(after) = Len(before) + 1
            /\ after[Len(after)].step = lastCall'.step_number

\* The log has one entry for each completed step and no step twice.
LogMatchesCompletedSet(ws) ==
    /\ Len(ws.execution_log) = Cardinality(ws.completed_steps)
    /\ \A i, j \in DOMAIN ws.execution_log :
        ws.execution_log[i].step = ws.execution_log[j].step => i = j

\* C33: the execution log of a workflow is append-only and ordered by
\* completion: each accepted completion appends exactly one entry at the
\* end, earlier entries are never changed or reordered, no step number
\* occurs in two entries, and the length of the log always equals the size
\* of the completed set.
C33_LogAppendOnlyMatchesCompletedSet ==
    /\ [](\A w \in DOMAIN workflows : LogMatchesCompletedSet(workflows[w]))
    /\ [][LogsOnlyGrow]_vars

(***************************************************************************)
(* The plans initialize_workflow accepts.                                  *)
(***************************************************************************)
\* The step numbers of the plan, in the order of its "steps" list.
PlanNumbers(ws) ==
    [i \in DOMAIN ws.all_steps.steps |-> ws.all_steps.steps[i].step]

\* The numbers 1..total_steps, each once.
ContiguousPlan(ws) ==
    /\ Len(ws.all_steps.steps) = ws.all_steps.total_steps
    /\ {PlanNumbers(ws)[i] : i \in DOMAIN PlanNumbers(ws)}
        = 1..ws.all_steps.total_steps
    /\ NoDuplicates(PlanNumbers(ws))

\* C34: every workflow that initialize_workflow accepts has a plan whose
\* step numbers are exactly 1..total_steps, contiguous and without
\* duplicates, so the declared total equals the number of declared steps.
C34_AcceptedPlanIsContiguous ==
    \A w \in DOMAIN workflows :
        Accepted(workflows[w]) => ContiguousPlan(workflows[w])

(***************************************************************************)
(* Reported completion.                                                    *)
(***************************************************************************)
\* The document returned last says that its workflow is complete.
ReportsComplete(doc) ==
    /\ "status" \in DOMAIN doc
    /\ doc.status = "complete"

\* Every declared step is completed, and no more steps than the total.
AllDeclaredDone(ws) ==
    /\ Declared(ws) \subseteq ws.completed_steps
    /\ Cardinality(ws.completed_steps) <= ws.all_steps.total_steps

\* C35: whenever a workflow reports complete (is_complete true, or status
\* complete from process_step_completion or get_workflow_status), every
\* declared step is in the completed set and the number of completed steps
\* does not exceed the declared total.
C35_CompleteMeansAllDeclaredDone ==
    /\ \A w \in DOMAIN workflows :
        is_complete(workflows[w]) => AllDeclaredDone(workflows[w])
    /\ ReportsComplete(response) => AllDeclaredDone(workflows[response.workflow_id])

\* Every workflow that is complete before a step is complete after it.
CompleteStaysComplete ==
    \A w \in DOMAIN workflows :
        is_complete(workflows[w]) =>
            /\ w \in DOMAIN workflows'
            /\ is_complete(workflows'[w])
            /\ StatusResponse(workflows'[w]).status = "complete"

\* C36: completion is stable: once a workflow has reported complete,
\* is_complete stays true and get_workflow_status keeps reporting complete
\* after any further sequence of tracker calls.
C36_CompletionIsStable == [][CompleteStaysComplete]_vars

(***************************************************************************)
(* The order of the events of one call.                                    *)
(***************************************************************************)
IsNotWarn(event) == event.type # "warn"

\* The events of the call, the warnings of the ack validation left out.
CallTrail == SelectSeq(CallEvents, IsNotWarn)

CallStepCount ==
    Cardinality({i \in DOMAIN CallEvents : CallEvents[i].type = "step"})

TerminalEventTypes == {"done", "stopped_max_steps"}

CallTerminalCount ==
    Cardinality({i \in DOMAIN CallEvents :
                    CallEvents[i].type \in TerminalEventTypes})

\* The trail is step 1, its response, step 2, its response, ..., step k,
\* its response, and then nothing but terminal events.
StepsNumberedAndAnswered ==
    /\ Len(CallTrail) >= 2 * CallStepCount
    /\ \A n \in 1..CallStepCount :
        /\ CallTrail[2 * n - 1].type = "step"
        /\ CallTrail[2 * n - 1].step = n
        /\ CallTrail[2 * n].type = "agent_response"
        /\ CallTrail[2 * n].agent = CallTrail[2 * n - 1].agent
    /\ \A i \in (2 * CallStepCount + 1)..Len(CallTrail) :
        CallTrail[i].type \in TerminalEventTypes

\* C37: within one route call that returns normally, the step events of
\* the journal are numbered 1, 2, ..., k without gaps or repeats, each step
\* event is followed by that step's agent_response event before the next
\* step event, and in auto-loop mode exactly one terminal event (done, or
\* the stop at the cap) is written, after all step events.
C37_StepEventsNumberedAndClosed ==
    rt.pc = "returned" =>
        /\ StepsNumberedAndAnswered
        /\ rt.auto_loop =>
            /\ CallTerminalCount = 1
            /\ CallEvents[Len(CallEvents)].type \in TerminalEventTypes

\* An auto-loop call that ran three steps, one of them with a warning, and
\* ended with the done event.
C37_Witness ==
    /\ rt.pc = "returned"
    /\ rt.auto_loop
    /\ CallStepCount = 3
    /\ \E i \in DOMAIN CallEvents : CallEvents[i].type = "warn"
    /\ CallEvents[Len(CallEvents)].type = "done"

(***************************************************************************)
(* The acknowledgment the worker is told to emit.                          *)
(***************************************************************************)
\* The line of a guarded instruction that follows "Respond EXACTLY on a
\* single line with:" (the empty text when there is no such line).
InstructedAck(guarded_instruction) ==
    LET lines == SplitLines(guarded_instruction) IN
    IF /\ Len(lines) >= 4
       /\ lines[3] = <<"Respond EXACTLY on a single line with:">>
    THEN lines[4] ELSE <<>>

\* The first line of the answer is exactly the instructed line.
AnswersInstructedAck(agent_response, guarded_instruction) ==
    /\ InstructedAck(guarded_instruction) # <<>>
    /\ HasFirstLine(agent_response)
    /\ SplitLines(agent_response)[1] = InstructedAck(guarded_instruction)

\* The ack validation of route_task accepts the instructed line of every
\* agent of the roster.
RosterAcksAccepted ==
    \A entry \in SUB_AGENTS :
        LET instructed == InstructedAck(guard_instruction(entry.key, <<"x">>)) IN
        /\ instructed # <<>>
        /\ AckOk(Strip(instructed), entry.key)

\* The first answer of a worker that opens with the instructed line is
\* followed by no warning and no repeated call.
InstructedAckPasses ==
    (/\ rt.pc = "call_sub_agent"
     /\ rt'.pc # "call_sub_agent"
     /\ AnswersInstructedAck(rt'.agent_response, rt.guarded_instruction))
    => /\ WarnEvents' = WarnEvents
       /\ WorkerCalls' = WorkerCalls
       /\ rt'.pc # "retry_call_sub_agent"

\* C38: the acknowledgment line that guard_instruction tells the worker to
\* emit is accepted by the ack validation of the router for every roster
\* agent: a worker whose first response line is exactly that line is never
\* warned about or retried.
C38_InstructedAckIsAccepted ==
    /\ []RosterAcksAccepted
    /\ [][InstructedAckPasses]_vars

\* With ack enforcement on, a worker has answered with the instructed line
\* and the call went on to ask the TaskRouter, with no warning written.
C38_Witness ==
    /\ ENFORCE_RULE_ACK
    /\ rt.pc = "call_taskrouter_next_step"
    /\ AnswersInstructedAck(rt.agent_response, rt.guarded_instruction)
    /\ WarnEvents = {}
    /\ Cardinality(WorkerCalls) = 1

(***************************************************************************)
(* The two ways a workflow is finalized by a DONE text.                    *)
(***************************************************************************)
\* The call as it would end had the TaskRouter returned the text after a
\* step: lines 333-341 applied to the text.
DoneByOracle(text) == AfterOracle(Received(rt.request), text)

\* C39: finalization by a DONE task never fails and extracts the summary
\* the same way on both paths: for every task text that starts with DONE
\* (with or without a summary, with leading or trailing whitespace or
\* newlines), a DONE submitted directly to route and the same text returned
\* by the TaskRouter both end in a terminal response with the same summary.
C39_DoneFinalizesAlikeOnBothPaths ==
    DoneCall =>
        LET oracle == DoneByOracle(rt.request.task) IN
        /\ oracle.pc = "returned"
        /\ oracle.reply.done = TRUE
        /\ rt.pc = "returned"
        /\ reply.done = TRUE
        /\ reply.message = oracle.reply.message
        /\ journal[Len(journal)].type = "done"
        /\ journal[Len(journal)].summary
            = oracle.journal[Len(oracle.journal)].summary

(***************************************************************************)
(* taskrouter_mpc.py: the stdio tool "route", which forwards one call to   *)
(* the router over HTTP.  The POST is the one blocking call: the tool runs *)
(* up to it, and from its outcome to the return.                           *)
(***************************************************************************)
ToolTasks == {Task_CreateIndex, Task_DoneShipped, Task_NoColon}

\* The arguments a client passes: task always, the other three or not.  A
\* missing key is an argument left to its default.
ToolArguments ==
    LET full == [task : ToolTasks, auto_loop : BOOLEAN,
                 workflow_id : {<<>>, GivenWorkflowId},
                 from_taskrouter : BOOLEAN]
        optional == SUBSET {"auto_loop", "workflow_id", "from_taskrouter"}
    IN {[name \in {"task"} \cup keys |-> args[name]] :
            args \in full, keys \in optional}

\* A parameter of route with its default (lines 15-20).
Argument(args, name, default) ==
    IF name \in DOMAIN args THEN args[name] ELSE default

\* Lines 25-31: the JSON body of the POST.
RoutePayload(task, auto_loop, workflow_id, from_taskrouter) ==
    LET payload == [task |-> task, auto_loop |-> auto_loop,
                    from_taskrouter |-> from_taskrouter]
    IN IF workflow_id # <<>> THEN payload @@ [workflow_id |-> workflow_id]
       ELSE payload

\* A body that is no JSON document: r.json() raises ValueError.
NotJson == [not_json |-> TRUE]

\* What requests.post and raise_for_status may come to: a response of the
\* router (a RouteResponse, the 400 of an HTTPException, the 500 of an
\* uncaught exception), a response whose body is not JSON, or an exception
\* of the transport.
PostOutcomes ==
    {[kind |-> "response", status_code |-> 200,
      text |-> <<"{\"ok\": true, \"step\": 1, \"message\": \"step_complete\"}">>,
      json |-> RouteResponse(GivenWorkflowId, 1, <<"FileCreator">>,
                             Message_step_complete, FALSE)],
     [kind |-> "response", status_code |-> 200,
      text |-> <<"<html>gateway</html>">>, json |-> NotJson],
     [kind |-> "response", status_code |-> 400,
      text |-> <<"{\"detail\": \"invalid_format\"}">>,
      json |-> [detail |-> "invalid_format"]],
     [kind |-> "response", status_code |-> 500,
      text |-> <<"Internal Server Error">>, json |-> NotJson],
     [kind |-> "exception", exception |-> "Timeout",
      message |-> <<"Read timed out.">>],
     [kind |-> "exception", exception |-> "ConnectionError",
      message |-> <<"Connection refused">>]}

\* Response.raise_for_status raises HTTPError for a 4xx or 5xx status.
IsHTTPError(outcome) ==
    /\ outcome.kind = "response"
    /\ outcome.status_code >= 400
    /\ outcome.status_code < 600

ToolReturn(kind, value) == [raised |-> FALSE, kind |-> kind, value |-> value]

ToolRaise(exception) == [raised |-> TRUE, exception |-> exception]

\* Mutant: only HTTPError is caught; any other exception of the POST
\* leaves the tool.
RouteResult_NoCatchAll(outcome) ==
    IF outcome.kind = "exception" THEN ToolRaise(outcome.exception)
    ELSE IF IsHTTPError(outcome)
        THEN ToolReturn("text", <<"Router HTTP ">> \o IntText(outcome.status_code)
                                \o <<":", " ">> \o outcome.text)
    ELSE IF outcome.json # NotJson THEN ToolReturn("json", outcome.json)
    ELSE ToolReturn("text", outcome.text)

\* Lines 33-46: what route returns for an outcome of the POST.
RouteResult(outcome) ==
    IF outcome.kind = "exception"
        THEN ToolReturn("text", <<"Router request failed: ">> \o outcome.message)
    ELSE IF IsHTTPError(outcome)
        THEN ToolReturn("text", <<"Router HTTP ">> \o IntText(outcome.status_code)
                                \o <<":", " ">> \o outcome.text)
    ELSE IF outcome.json # NotJson THEN ToolReturn("json", outcome.json)
    ELSE ToolReturn("text", outcome.text)

ToolInit ==
    /\ TrackerIdle
    /\ RouterIdle
    /\ guard_run = [pc |-> "idle"]
    /\ sink = [pc |-> "idle"]
    /\ tool = [pc |-> "idle"]

\* route(...) up to requests.post.
CallRoute(args) ==
    /\ tool.pc = "idle"
    /\ tool' = [pc |-> "posted", args |-> args,
                payload |-> RoutePayload(args.task,
                                         Argument(args, "auto_loop", TRUE),
                                         Argument(args, "workflow_id", <<>>),
                                         Argument(args, "from_taskrouter", TRUE))]
    /\ UNCHANGED <<trackerVars, routerVars, guard_run, sink>>

\* From the outcome of the POST to the return of route.
PostCompletes(outcome) ==
    /\ tool.pc = "posted"
    /\ tool' = [pc |-> "returned", args |-> tool.args, payload |-> tool.payload,
                outcome |-> outcome, result |-> RouteResult(outcome)]
    /\ UNCHANGED <<trackerVars, routerVars, guard_run, sink>>

NextTool ==
    \/ \E args \in ToolArguments : CallRoute(args)
    \/ \E outcome \in PostOutcomes : PostCompletes(outcome)

SpecTool == ToolInit /\ [][NextTool]_vars

\* The body of the POST is the task as given, auto_loop and from_taskrouter
\* as given or true, and the workflow id when one is given.
ForwardsWithDefaults ==
    /\ tool.payload.task = tool.args.task
    /\ tool.payload.auto_loop =
        (IF "auto_loop" \in DOMAIN tool.args THEN tool.args.auto_loop ELSE TRUE)
    /\ tool.payload.from_taskrouter =
        (IF "from_taskrouter" \in DOMAIN tool.args
         THEN tool.args.from_taskrouter ELSE TRUE)
    /\ ("workflow_id" \in DOMAIN tool.args /\ tool.args.workflow_id # <<>>)
        => tool.payload.workflow_id = tool.args.workflow_id

\* A failure comes back as a text that carries the message or the status
\* and body; a success as the JSON of the body, or as its text.
ReturnsOutcome ==
    /\ ~tool.result.raised
    /\ tool.outcome.kind = "exception" =>
        /\ tool.result.kind = "text"
        /\ Contains(tool.result.value, tool.outcome.message)
    /\ (tool.outcome.kind = "response" /\ tool.outcome.status_code >= 400) =>
        /\ tool.result.kind = "text"
        /\ Contains(tool.result.value, IntText(tool.outcome.status_code))
        /\ Contains(tool.result.value, tool.outcome.text)
    /\ (tool.outcome.kind = "response" /\ tool.outcome.status_code < 400) =>
        IF tool.outcome.json # NotJson
        THEN tool.result.kind = "json" /\ tool.result.value = tool.outcome.json
        ELSE tool.result.kind = "text" /\ tool.result.value = tool.outcome.text

\* C40: the stdio route tool forwards each call to the router with
\* auto_loop and from_taskrouter defaulting to true and never raises: an
\* HTTP error of the router, a timeout or a connection failure is returned
\* to the caller as a text message, and a successful reply is returned as
\* the router's JSON or, failing that, its text.
C40_RouteToolForwardsAndNeverRaises ==
    /\ tool.pc \in {"posted", "returned"} => ForwardsWithDefaults
    /\ tool.pc = "returned" => ReturnsOutcome

\* A call that left auto_loop and from_taskrouter to their defaults, timed
\* out, and returned the failure as text.
C40_Witness ==
    /\ tool.pc = "returned"
    /\ DOMAIN tool.args = {"task"}
    /\ tool.payload.auto_loop
    /\ tool.payload.from_taskrouter
    /\ tool.outcome.kind = "exception"
    /\ tool.outcome.exception = "Timeout"
    /\ tool.result.kind = "text"

====
